---- MODULE Spec2Model ----
(***************************************************************************)
(* Wardrobe backend: the vision analysis gateway (services/aiService.js),  *)
(* the preference accumulator and the pattern analysis                     *)
(* (services/learningService.js), the batch upload, the outfit composer,   *)
(* the garment and behaviour routes (routes/clothes.js) and the provider   *)
(* test routes (routes/ai-test.js).                                        *)
(*                                                                         *)
(* String literals of the source that are written in Chinese are spelled   *)
(* in ASCII here:  top = shang-yi, general = yi-ban, unknown = wei-zhi,    *)
(* casual = xiu-xian, minimal = jian-yue, shirt = chen-shan,               *)
(* tshirt = T-xu, bottom = xia-zhuang, spring/summer/autumn = chun/xia/qiu,*)
(* needs-reanalysis = xu-yao-chong-xin-fen-xi, garment = yi-wu.            *)
(* Numbers with a fractional part are kept in hundredths (0.6 is 60).      *)
(* Wall-clock values (latencyMs, timestamps) are not part of the state.    *)
(***************************************************************************)
EXTENDS Integers, Sequences, FiniteSets, TLC

VARIABLES
    hasKey,           \* aiService.*ApiKey: provider -> credential present
    preferredAI,      \* aiService.preferredAI
    metrics,          \* aiService.metrics
    aiPc,             \* position of the analyzeClothing call in flight
    selected,         \* value the switch at line 41 saw
    chainIdx,         \* loop position of analyzeWithFallback (0: not running)
    retryFrom,        \* where analyzeWithOpenAI was called from, while it retries
    fallbackInvoked,  \* analyzeWithFallback was entered by this call
    netCalls,         \* providers contacted over the network by this call
    lastFailure,      \* how the call's latest request failed, "none" if it did not
    analysis,         \* the provider's analysis, <<>> while there is none
    aiResult,         \* what analyzeClothing returned, <<>> before it returns
    aiRaised,         \* an error left analyzeClothing towards its caller
    userExists,       \* the Users collection holds the requesting user
    learningData,     \* the stored user.learningData, <<>> while the user has none
    behaviors,        \* the UserBehavior collection, in insertion order
    calls,            \* recordBehavior / updateUserPreferences calls made so far
    eventPool,        \* the behaviour data the clients submit (never changes)
    files,            \* req.files of the batch upload: what happens to each image
    dbConnected,      \* mongoose.connection.readyState === 1 when the request came
    batchPc,          \* position of the POST /batch-upload handler
    winStart,         \* the loop variable i (1-based index of the window's first file)
    itemPc,           \* position of each file's async callback
    itemResult,       \* what each file's callback resolved with, <<>> before
    processResults,   \* the handler's processResults array
    clothingDb,       \* indexes of the files whose Clothing document is committed
    batchResponse,    \* status and body sent, <<>> before
    userClothes,      \* the inventory given to generateOutfitRecommendations
    recPc,            \* position of the generateOutfitRecommendations call
    recTried,         \* provider requests of that call and how they ended
    recResult,        \* what the call returned, <<>> before
    wardrobe,         \* the Clothing collection: garment id -> stored document
    wreqs,            \* garment requests made so far, with their handler's locals
    testReqs,         \* POST /test-analysis requests made so far, with their locals
    settledAI,        \* preferredAI before the tests in flight began; the last switch
    window,           \* the UserBehavior documents analyzeUserPatterns finds
    patterns,         \* what analyzeUserPatterns returned, <<>> before
    responses         \* what POST /behavior answered to each submission so far

aiVars == <<hasKey, preferredAI, metrics, aiPc, selected, chainIdx, retryFrom,
            fallbackInvoked, netCalls, lastFailure, analysis, aiResult, aiRaised>>

learnVars == <<userExists, learningData, behaviors, calls, eventPool>>

batchVars == <<files, dbConnected, batchPc, winStart, itemPc, itemResult,
               processResults, clothingDb, batchResponse>>

recVars == <<userClothes, recPc, recTried, recResult>>

wardrobeVars == <<wardrobe, wreqs>>

testVars == <<testReqs, settledAI>>

patternVars == <<window, patterns>>

moreVars == <<wardrobeVars, testVars, patternVars, responses>>

vars == <<aiVars, learnVars, batchVars, recVars, moreVars>>

-----------------------------------------------------------------------------
\* JavaScript's undefined / a present value.
Undefined == <<>>
Some(v) == <<v>>
Max(a, b) == IF a >= b THEN a ELSE b
Min(a, b) == IF a <= b THEN a ELSE b

\* Number of analyzeClothing calls a behaviour makes.
MaxCalls == 2

LLMProviders == {"openai", "anthropic", "gemini", "kimi"}
Providers == LLMProviders \cup {"google-vision"}
\* "auto" stands for every value of PREFERRED_AI_SERVICE the switch has no case for.
PreferredValues == Providers \cup {"auto"}

\* analyzeWithFallback: const services = [...]
Services == <<"gemini", "openai", "kimi", "anthropic", "google-vision">>

\* How one network request to a provider can end.
Failures == {"timeout", "http5xx", "http4xx", "network", "unparseable"}

-----------------------------------------------------------------------------
\* What a language-model provider's JSON can hold once it parsed.
ProviderColors == {Undefined, Some(<<>>), Some(<<"unknown">>), Some(<<"blue">>)}
ProviderConfidences == {Undefined, Some(30), Some(85), Some(150)}
ProviderSubCategories == {Undefined, Some("general"), Some("tshirt")}
ProviderCategories == {Undefined, Some("bottom")}
ProviderSeasons == {Undefined, Some(<<"summer">>)}

\* analyzeWithOpenAI / Anthropic / Gemini / Kimi: return { ...analysis, aiService: p }
ProviderAnalyses(p) ==
    { [category |-> c, subCategory |-> sc, colors |-> col, style |-> Some("casual"),
       season |-> se, confidence |-> cf, features |-> Some(<<"feature">>),
       tags |-> Some(<<"tag">>), aiService |-> Some(p)] :
         c \in ProviderCategories, sc \in ProviderSubCategories,
         col \in ProviderColors, cf \in ProviderConfidences, se \in ProviderSeasons }

\* Responses of the Vision API: the category a label maps to (if any), the label's
\* score, and the imagePropertiesAnnotation colours (absent, empty or named).
VisionResults ==
    { [label |-> l, score |-> s, props |-> p] :
         l \in {Undefined, Some("bottom")}, s \in {40, 90},
         p \in {Undefined, Some(<<>>), Some(<<"white">>)} }

\* extractColors
ExtractColors(props) == IF props = Undefined THEN <<"unknown">> ELSE props[1]

\* getSubCategory: the first entry of the category's list
GetSubCategory(category) ==
    CASE category = "top" -> "tshirt"
      [] category = "bottom" -> "jeans"
      [] category = "outerwear" -> "jacket"
      [] category = "shoes" -> "sneakers"
      [] OTHER -> "general"

\* processVisionResult: no aiService field in what it returns
ProcessVisionResult(v) ==
    LET category == IF v.label = Undefined THEN "top" ELSE v.label[1]
        confidence == IF v.label = Undefined THEN 50 ELSE Max(50, v.score)
    IN  [category |-> Some(category), subCategory |-> Some(GetSubCategory(category)),
         colors |-> Some(SubSeq(ExtractColors(v.props), 1, Min(3, Len(ExtractColors(v.props))))),
         style |-> Some("casual"), season |-> Some(<<"spring", "autumn">>),
         confidence |-> Some(confidence), features |-> Some(<<"feature">>),
         tags |-> Some(<<"tag">>), aiService |-> Undefined]

\* getFallbackAnalysis with the neutral confidence of the other defaults
GetFallbackAnalysisNeutral ==
    [category |-> Some("top"), subCategory |-> Some("general"),
     colors |-> Some(<<"unknown">>), style |-> Some("casual"),
     season |-> Some(<<"spring", "autumn">>), confidence |-> Some(50),
     detectedFeatures |-> Some(<<"garment">>),
     suggestedTags |-> Some(<<"needs-reanalysis">>)]

\* getFallbackAnalysis
GetFallbackAnalysis ==
    [category |-> Some("top"), subCategory |-> Some("general"),
     colors |-> Some(<<"unknown">>), style |-> Some("casual"),
     season |-> Some(<<"spring", "autumn">>), confidence |-> Some(30),
     detectedFeatures |-> Some(<<"garment">>),
     suggestedTags |-> Some(<<"needs-reanalysis">>)]

\* analyzeWithLocalHeuristics, from the palette found in the pixels and the stripe signal
AnalyzeWithLocalHeuristics(palette, stripes) ==
    [category |-> Some("top"),
     subCategory |-> Some(IF stripes THEN "shirt" ELSE "general"),
     colors |-> Some(IF Len(palette) > 0 THEN palette ELSE <<"unknown">>),
     style |-> Some(IF stripes THEN "casual" ELSE "minimal"),
     season |-> Some(<<"spring", "autumn">>), confidence |-> Some(70),
     aiService |-> Some("local-heuristics")]

\* analyzeWithLocalHeuristics(...).catch(() => null): <<>> is null (sharp rejected the bytes)
LocalOutcomes ==
    {Undefined} \cup
    { Some(AnalyzeWithLocalHeuristics(p, s)) : p \in {<<>>, <<"red", "white">>}, s \in BOOLEAN }

-----------------------------------------------------------------------------
\* A recording that counts a failed call as an error only, not as a call
RecordMetricsErrorOnly(m, service, isError) ==
    LET old == IF service \in DOMAIN m.byService THEN m.byService[service]
               ELSE [count |-> 0, errors |-> 0]
        new == IF isError THEN [count |-> old.count, errors |-> old.errors + 1]
               ELSE [count |-> old.count + 1, errors |-> old.errors]
    IN  [totalAnalyses |-> m.totalAnalyses + 1,
         byService |-> [s \in DOMAIN m.byService \cup {service} |->
                           IF s = service THEN new ELSE m.byService[s]],
         last |-> Some([aiService |-> service, isError |-> isError])]

\* recordMetrics(service, latencyMs, isError)
RecordMetrics(m, service, isError) ==
    LET old == IF service \in DOMAIN m.byService THEN m.byService[service]
               ELSE [count |-> 0, errors |-> 0]
        new == [count |-> old.count + 1,
                errors |-> IF isError THEN old.errors + 1 ELSE old.errors]
    IN  [totalAnalyses |-> m.totalAnalyses + 1,
         byService |-> [s \in DOMAIN m.byService \cup {service} |->
                           IF s = service THEN new ELSE m.byService[s]],
         last |-> Some([aiService |-> service, isError |-> isError])]

\* analyzeClothing lines 64-75
BuildResult(a, preferred) ==
    [category |-> a.category, subCategory |-> a.subCategory, colors |-> a.colors,
     style |-> a.style, season |-> a.season, confidence |-> a.confidence,
     detectedFeatures |-> a.features, suggestedTags |-> a.tags,
     aiService |-> IF a.aiService # Undefined THEN a.aiService[1] ELSE preferred]

\* analyzeClothing line 77
NeedsLocal(r) ==
    \/ r.colors = Undefined
    \/ Len(r.colors[1]) = 0
    \/ r.colors[1] = <<"unknown">>
    \/ (r.confidence # Undefined /\ r.confidence[1] < 60)

\* analyzeClothing lines 79-88, local being the heuristic analyzer's result
Augment(r, local) ==
    [r EXCEPT
       !.colors = IF local.colors # Undefined /\ Len(local.colors[1]) > 0
                  THEN local.colors ELSE r.colors,
       !.subCategory = IF r.subCategory = Undefined \/ r.subCategory = Some("general")
                       THEN (IF local.subCategory # Undefined THEN local.subCategory
                             ELSE r.subCategory)
                       ELSE r.subCategory,
       !.category = IF r.category = Undefined
                    THEN (IF local.category # Undefined THEN local.category ELSE Some("top"))
                    ELSE r.category,
       !.season = IF r.season = Undefined \/ Len(r.season[1]) = 0
                  THEN (IF local.season # Undefined THEN local.season
                        ELSE Some(<<"spring", "autumn">>))
                  ELSE r.season,
       !.aiService = r.aiService \o "+local",
       !.confidence = Some(Max(IF r.confidence = Undefined \/ r.confidence = Some(0)
                               THEN 50 ELSE r.confidence[1], 70))]

-----------------------------------------------------------------------------
\* No garment request, no provider test and no pattern analysis has been made
NoMore ==
    /\ wardrobe = <<>>
    /\ wreqs = <<>>
    /\ testReqs = <<>>
    /\ settledAI = Undefined
    /\ window = <<>>
    /\ patterns = Undefined
    /\ responses = <<>>

\* No batch upload has been requested
NoBatch ==
    /\ files = <<>>
    /\ dbConnected = TRUE
    /\ batchPc = "idle"
    /\ winStart = 0
    /\ itemPc = <<>>
    /\ itemResult = <<>>
    /\ processResults = <<>>
    /\ clothingDb = {}
    /\ batchResponse = Undefined

\* No outfit recommendation has been requested
NoRecommendation ==
    /\ userClothes = <<>>
    /\ recPc = "idle"
    /\ recTried = <<>>
    /\ recResult = Undefined

\* The learning service at rest: a user without learning data, no events
NoLearning ==
    /\ userExists = TRUE
    /\ learningData = Undefined
    /\ behaviors = <<>>
    /\ calls = <<>>
    /\ eventPool = {}

\* The constructor: credentials and the preferred service come from the
\* environment; the metrics start empty.
InitAI ==
    /\ NoLearning
    /\ NoMore
    /\ NoBatch
    /\ NoRecommendation
    /\ hasKey \in [Providers -> BOOLEAN]
    /\ preferredAI \in PreferredValues
    /\ metrics = [totalAnalyses |-> 0, byService |-> <<>>, last |-> Undefined]
    /\ aiPc = "idle"
    /\ selected = "none"
    /\ chainIdx = 0
    /\ retryFrom = "none"
    /\ fallbackInvoked = FALSE
    /\ netCalls = <<>>
    /\ lastFailure = "none"
    /\ analysis = Undefined
    /\ aiResult = Undefined
    /\ aiRaised = FALSE

\* A catch block that logs and throws again: the error reaches the caller.
AnalyzeRethrow ==
    /\ aiResult' = Undefined
    /\ aiRaised' = TRUE
    /\ aiPc' = "done"
    /\ analysis' = Undefined
    /\ chainIdx' = 0
    /\ retryFrom' = "none"
    /\ UNCHANGED metrics

\* analyzeClothing lines 93-99: the catch of the whole body
AnalyzeCatch ==
    /\ aiResult' = Some([category |-> GetFallbackAnalysis.category,
                         subCategory |-> GetFallbackAnalysis.subCategory,
                         colors |-> GetFallbackAnalysis.colors,
                         style |-> GetFallbackAnalysis.style,
                         season |-> GetFallbackAnalysis.season,
                         confidence |-> GetFallbackAnalysis.confidence,
                         detectedFeatures |-> GetFallbackAnalysis.detectedFeatures,
                         suggestedTags |-> GetFallbackAnalysis.suggestedTags,
                         aiService |-> "fallback"])
    /\ metrics' = RecordMetrics(metrics, "fallback", TRUE)
    /\ aiRaised' = FALSE
    /\ aiPc' = "done"
    /\ analysis' = Undefined
    /\ chainIdx' = 0
    /\ retryFrom' = "none"

\* analyzeWithFallback lines 406-412: catch { continue }, the next iteration, or
\* the throw after the loop, which analyzeClothing catches
ChainAdvance ==
    IF chainIdx < Len(Services)
    THEN /\ chainIdx' = chainIdx + 1
         /\ aiPc' = "chain"
         /\ retryFrom' = "none"
         /\ UNCHANGED <<metrics, analysis, aiResult, aiRaised>>
    ELSE AnalyzeCatch

\* A rejected provider call, seen by the code that awaited it
ProviderFailed(from) == IF from = "chain" THEN ChainAdvance ELSE AnalyzeCatch

\* A provider call that resolved with an analysis
ProviderSucceeded(a) ==
    /\ analysis' = Some(a)
    /\ aiPc' = "post"
    /\ chainIdx' = 0
    /\ retryFrom' = "none"
    /\ UNCHANGED <<metrics, aiResult, aiRaised>>

\* What provider p answers when its response has the expected structure
Analyses(p) ==
    IF p = "google-vision" THEN { ProcessVisionResult(v) : v \in VisionResults }
    ELSE ProviderAnalyses(p)

\* A provider call that sends a second request after any failure
RetryableAlways(p, f) == p = "openai"

\* analyzeWithOpenAI line 192: the errors that get a second request
Retryable(p, f) == p = "openai" /\ f \in {"timeout", "http5xx"}

\* One call of analyzeWith<p> (or detectClothingWithVision + processVisionResult)
\* up to the end of its first request. A provider accepts no request without a
\* credential.
Request(p, from) ==
    /\ netCalls' = Append(netCalls, p)
    /\ \/ /\ hasKey[p]
          /\ lastFailure' = "none"
          /\ \E a \in Analyses(p) : ProviderSucceeded(a)
       \/ \E f \in Failures :
            /\ lastFailure' = f
            /\ IF Retryable(p, f)
               THEN /\ aiPc' = "retry"
                    /\ retryFrom' = from
                    /\ UNCHANGED <<chainIdx, metrics, analysis, aiResult, aiRaised>>
               ELSE ProviderFailed(from)

\* analyzeWithFallback always enters every keyed branch and more
HasCredentialAlways(service) == TRUE

\* analyzeWithFallback lines 388-400: if (this.<service>ApiKey)
HasCredential(service) == hasKey[service]

\* analyzeClothing lines 35-61: the switch and the selected provider's first request
AnalyzeClothing ==
    /\ aiPc = "idle"
    /\ metrics.totalAnalyses < MaxCalls
    /\ selected' = preferredAI
    /\ IF preferredAI \in Providers
       THEN /\ fallbackInvoked' = FALSE
            /\ Request(preferredAI, "select")
       ELSE /\ fallbackInvoked' = TRUE
            /\ chainIdx' = 1
            /\ aiPc' = "chain"
            /\ UNCHANGED <<metrics, retryFrom, netCalls, lastFailure, analysis, aiResult,
                           aiRaised>>
    /\ UNCHANGED <<hasKey, preferredAI>>
    /\ UNCHANGED <<learnVars, batchVars, recVars, moreVars>>

\* analyzeWithFallback lines 382-410: one iteration of the loop
AnalyzeWithFallback ==
    /\ aiPc = "chain"
    /\ IF HasCredential(Services[chainIdx])
       THEN Request(Services[chainIdx], "chain")
       ELSE ChainAdvance /\ UNCHANGED <<netCalls, lastFailure>>
    /\ UNCHANGED <<hasKey, preferredAI, selected, fallbackInvoked>>
    /\ UNCHANGED <<learnVars, batchVars, recVars, moreVars>>

\* analyzeWithOpenAI lines 193-194: the second request
RetryOpenAI ==
    /\ aiPc = "retry"
    /\ netCalls' = Append(netCalls, "openai")
    /\ \/ /\ hasKey["openai"]
          /\ lastFailure' = "none"
          /\ \E a \in Analyses("openai") : ProviderSucceeded(a)
       \/ \E f \in Failures : lastFailure' = f /\ ProviderFailed(retryFrom)
    /\ UNCHANGED <<hasKey, preferredAI, selected, fallbackInvoked>>
    /\ UNCHANGED <<learnVars, batchVars, recVars, moreVars>>

\* analyzeClothing lines 63-92: the result record, the local augmentation, the metrics
AnalyzePost ==
    /\ aiPc = "post"
    /\ LET r == BuildResult(analysis[1], preferredAI)
       IN  \E local \in (IF NeedsLocal(r) THEN LocalOutcomes ELSE {Undefined}) :
             LET out == IF local # Undefined THEN Augment(r, local[1]) ELSE r
             IN  /\ aiResult' = Some(out)
                 /\ metrics' = RecordMetrics(metrics, out.aiService, FALSE)
    /\ aiPc' = "done"
    /\ UNCHANGED <<hasKey, preferredAI, selected, chainIdx, retryFrom, fallbackInvoked,
                   netCalls, lastFailure, analysis, aiRaised>>
    /\ UNCHANGED <<learnVars, batchVars, recVars, moreVars>>

\* The caller has the result; the call's locals are gone
AnalyzeReturn ==
    /\ aiPc = "done"
    /\ aiPc' = "idle"
    /\ selected' = "none"
    /\ fallbackInvoked' = FALSE
    /\ netCalls' = <<>>
    /\ lastFailure' = "none"
    /\ analysis' = Undefined
    /\ aiResult' = Undefined
    /\ aiRaised' = FALSE
    /\ UNCHANGED <<hasKey, preferredAI, metrics, chainIdx, retryFrom>>
    /\ UNCHANGED <<learnVars, batchVars, recVars, moreVars>>

NextAnalyze ==
    \/ AnalyzeClothing
    \/ AnalyzeWithFallback
    \/ RetryOpenAI
    \/ AnalyzePost
    \/ AnalyzeReturn

\* The vision analysis gateway under every configuration of the environment;
\* no behaviour event is submitted
SpecAnalyze == InitAI /\ [][NextAnalyze]_vars

-----------------------------------------------------------------------------
\* Position of a provider in the chain's order
Pos(p) == CHOOSE i \in 1..Len(Services) : Services[i] = p

\* The provider whose response became the analysis
AnalysisProvider ==
    IF analysis[1].aiService = Undefined THEN "google-vision" ELSE analysis[1].aiService[1]

\* C1: analyzeClothing never raises an error to its caller: whatever the
\* providers and the local analyzer do, no error leaves the call, a call in
\* flight can always take its next step, and a finished call has returned a
\* result record.
C1_NeverRaises ==
    /\ aiRaised = FALSE
    /\ aiPc = "done" => aiResult # Undefined
    /\ aiPc \in {"chain", "retry", "post", "done"} => ENABLED NextAnalyze

C1_Witness ==
    /\ aiPc = "done"
    /\ selected \in Providers
    /\ ~hasKey[selected]
    /\ netCalls = <<selected>>
    /\ aiResult # Undefined

\* C2: when the configured preferred provider's call fails, analyzeClothing
\* goes on to the fallback chain (analyzeWithFallback is invoked); the static
\* default is returned only after the chain is exhausted.
C2_FallbackAfterPreferredFails ==
    (aiPc = "done" /\ selected \in Providers /\ analysis = Undefined) => fallbackInvoked

C4_TotalFailureDefault ==
    (aiPc = "done" /\ analysis = Undefined) =>
      /\ aiResult # Undefined
      /\ aiResult[1].category = Some("top")
      /\ aiResult[1].confidence = Some(30)
      /\ aiResult[1].colors = Some(<<"unknown">>)
      /\ \E i \in 1..Len(aiResult[1].suggestedTags[1]) :
            aiResult[1].suggestedTags[1][i] = "needs-reanalysis"
      /\ aiResult[1].aiService = "fallback"
      /\ metrics.last = Some([aiService |-> "fallback", isError |-> TRUE])
      /\ "fallback" \in DOMAIN metrics.byService
      /\ metrics.byService["fallback"].errors >= 1

C4_Witness ==
    /\ aiPc = "done"
    /\ analysis = Undefined
    /\ fallbackInvoked
    /\ Len(netCalls) >= 3

\* C5: every record analyzeClothing returns has a confidence within [0,1] and a
\* non-empty colours sequence.
C5_ResultWellFormed ==
    (aiPc = "done" /\ aiResult # Undefined) =>
      /\ aiResult[1].confidence # Undefined
      /\ aiResult[1].confidence[1] >= 0
      /\ aiResult[1].confidence[1] <= 100
      /\ aiResult[1].colors # Undefined
      /\ Len(aiResult[1].colors[1]) > 0

-----------------------------------------------------------------------------
(***************************************************************************)
(* The preference accumulator (learningService.js).  The document store    *)
(* keeps what save() is given and findById hands out a private copy.       *)
(***************************************************************************)

\* Number of updateUserPreferences calls a behaviour of SpecPrefs makes.
MaxEvents == 3
\* Number of recordBehavior calls a behaviour of SpecRecord makes.
MaxRecords == 3
\* Number of preference updates that can be in flight together.
MaxInFlight == 2

\* UserBehaviorSchema.action enum
ActionEnum ==
    {"view_clothing", "like_outfit", "dislike_outfit", "wear_clothing", "save_outfit",
     "reject_recommendation", "accept_recommendation", "search_clothing",
     "filter_clothing", "upload_clothing", "delete_clothing", "edit_clothing"}

\* UserBehaviorSchema.targetType enum
TargetTypeEnum == {"clothing", "outfit", "recommendation", "search", "filter"}

\* LearningService constructor: learningWeights, in hundredths
LearningWeights ==
    [k \in {"like", "dislike", "wear", "save", "view", "reject", "accept"} |->
       CASE k = "like" -> 200
         [] k = "dislike" -> -150
         [] k = "wear" -> 150
         [] k = "save" -> 180
         [] k = "view" -> 30
         [] k = "reject" -> -100
         [] k = "accept" -> 120]

\* this.learningWeights[behavior.action] || 0
WeightOf(action) ==
    IF action \in DOMAIN LearningWeights THEN LearningWeights[action] ELSE 0

\* The Clothing collection, in the order find() returns it. Garment c has no
\* style and no colours (both optional in ClothingSchema).
ClothingIds == <<"a", "b", "c">>
Clothing ==
    [id \in {"a", "b", "c"} |->
       CASE id = "a" -> [style |-> Some("casual"), colors |-> <<"blue", "white">>]
         [] id = "b" -> [style |-> Some("formal"), colors |-> <<"blue">>]
         [] id = "c" -> [style |-> Undefined, colors |-> <<>>]]

\* Clothing.findById(id): null (<<>>) for an id of no garment
ClothingFindById(id) == IF id \in DOMAIN Clothing THEN Some(Clothing[id]) ELSE Undefined

\* Clothing.find({ _id: { $in: items } })
ClothingFind(items) ==
    LET InItems(id) == \E i \in 1..Len(items) : items[i] = id
    IN  SelectSeq(ClothingIds, InItems)

\* Order of the ids as strings (JavaScript's default sort compares strings)
IdRank(id) ==
    CASE id = "a" -> 1 [] id = "b" -> 2 [] id = "c" -> 3 [] OTHER -> 4

RECURSIVE Insert(_, _)
Insert(x, s) ==
    IF s = <<>> THEN <<x>>
    ELSE IF IdRank(x) <= IdRank(Head(s)) THEN <<x>> \o s
    ELSE <<Head(s)>> \o Insert(x, Tail(s))

\* A sort that leaves the array as it is
SortKeepsOrder(s) == s

\* Array.prototype.sort() on an array of ids
RECURSIVE SortIds(_)
SortIds(s) == IF s = <<>> THEN <<>> ELSE Insert(Head(s), SortIds(Tail(s)))

\* Array.prototype.join(',')
RECURSIVE Join(_)
Join(s) ==
    IF s = <<>> THEN ""
    ELSE IF Len(s) = 1 THEN s[1]
    ELSE s[1] \o "," \o Join(Tail(s))

\* Array.prototype.includes
Includes(s, x) == \E i \in 1..Len(s) : s[i] = x

\* [...new Set(arr)] and Object.keys(frequency): first occurrences, in order
RECURSIVE Distinct(_)
Distinct(s) ==
    IF s = <<>> THEN <<>>
    ELSE LET r == Distinct(SubSeq(s, 1, Len(s) - 1))
         IN  IF Includes(r, s[Len(s)]) THEN r ELSE Append(r, s[Len(s)])

Count(s, x) == Cardinality({i \in 1..Len(s) : s[i] = x})

\* getMostFrequent: reduce((a, b) => frequency[a] > frequency[b] ? a : b, null)
RECURSIVE ReduceMostFrequent(_, _, _)
ReduceMostFrequent(arr, keys, a) ==
    IF keys = <<>> THEN a
    ELSE ReduceMostFrequent(arr, Tail(keys),
            IF a # Undefined /\ Count(arr, a[1]) > Count(arr, Head(keys))
            THEN a ELSE Some(Head(keys)))

GetMostFrequent(arr) == ReduceMostFrequent(arr, Distinct(arr), Undefined)

\* Map.get(key) || 0
GetScore(map, key) == IF key \in DOMAIN map THEN map[key] ELSE 0

\* Map.set(key, value)
SetScore(map, key, value) ==
    [k \in DOMAIN map \cup {key} |-> IF k = key THEN value ELSE map[k]]

\* The new score without the clamp
NewScoreUnclamped(currentScore, weight) == currentScore + weight

\* Math.max(-5, Math.min(5, currentScore + weight))
NewScore(currentScore, weight) == Max(-500, Min(500, currentScore + weight))

\* updateUserPreferences lines 49-56: the initial learning data
FreshLearning ==
    [stylePreferences |-> <<>>, colorPreferences |-> <<>>,
     occasionPreferences |-> <<>>, rejectedCombinations |-> <<>>]

\* processStylePreferences
ProcessStylePreferences(L, b) ==
    LET weight == WeightOf(b.action)
        clothing == IF b.targetId # Undefined THEN ClothingFindById(b.targetId[1])
                    ELSE Undefined
        L1 == IF b.targetType = "clothing" /\ b.targetId # Undefined
                 /\ clothing # Undefined /\ clothing[1].style # Undefined
              THEN [L EXCEPT !.stylePreferences =
                      SetScore(@, clothing[1].style[1],
                               NewScore(GetScore(@, clothing[1].style[1]), weight))]
              ELSE L
        clothes == IF b.outfitItems # Undefined THEN ClothingFind(b.outfitItems[1]) ELSE <<>>
        HasStyle(id) == Clothing[id].style # Undefined
        withStyle == SelectSeq(clothes, HasStyle)
        styles == [i \in 1..Len(withStyle) |-> Clothing[withStyle[i]].style[1]]
        dominantStyle == GetMostFrequent(styles)
    IN  IF b.targetType = "outfit" /\ b.outfitItems # Undefined /\ dominantStyle # Undefined
        THEN [L1 EXCEPT !.stylePreferences =
                SetScore(@, dominantStyle[1], NewScore(GetScore(@, dominantStyle[1]), weight))]
        ELSE L1

\* colors.forEach(color => colorPreferences.set(color, clamp(current + weight)))
RECURSIVE AddColors(_, _, _)
AddColors(map, colors, weight) ==
    IF colors = <<>> THEN map
    ELSE AddColors(SetScore(map, Head(colors), NewScore(GetScore(map, Head(colors)), weight)),
                   Tail(colors), weight)

\* clothes.flatMap(c => c.colors || [])
RECURSIVE FlatColors(_)
FlatColors(clothes) ==
    IF clothes = <<>> THEN <<>> ELSE Clothing[Head(clothes)].colors \o FlatColors(Tail(clothes))

\* processColorPreferences; weight * 0.5 is exact for every weight of the table
ProcessColorPreferences(L, b) ==
    LET weight == WeightOf(b.action)
        clothing == IF b.targetId # Undefined THEN ClothingFindById(b.targetId[1])
                    ELSE Undefined
        L1 == IF b.targetType = "clothing" /\ b.targetId # Undefined /\ clothing # Undefined
              THEN [L EXCEPT !.colorPreferences = AddColors(@, clothing[1].colors, weight)]
              ELSE L
        clothes == IF b.outfitItems # Undefined THEN ClothingFind(b.outfitItems[1]) ELSE <<>>
    IN  IF b.targetType = "outfit" /\ b.outfitItems # Undefined
        THEN [L1 EXCEPT !.colorPreferences =
                AddColors(@, Distinct(FlatColors(clothes)), weight \div 2)]
        ELSE L1

\* processOccasionPreferences
ProcessOccasionPreferences(L, b) ==
    IF b.occasion # Undefined
    THEN [L EXCEPT !.occasionPreferences =
            SetScore(@, b.occasion[1], NewScore(GetScore(@, b.occasion[1]), WeightOf(b.action)))]
    ELSE L

\* processRejectedCombinations line 165: the length that triggers the cut
RejectedLimit == 100
\* processRejectedCombinations line 167: slice(-100)
RejectedKeep == 100

\* slice(0, n): the first n entries
SliceFirst(s, n) == SubSeq(s, 1, Min(n, Len(s)))

\* slice(-n): the last n entries
SliceLast(s, n) == SubSeq(s, Max(1, Len(s) - n + 1), Len(s))

\* processRejectedCombinations
ProcessRejectedCombinations(L, b) ==
    IF b.action \in {"dislike_outfit", "reject_recommendation"} /\ b.outfitItems # Undefined
    THEN LET combination == Join(SortIds(b.outfitItems[1]))
             pushed == Append(L.rejectedCombinations, combination)
         IN  IF Includes(L.rejectedCombinations, combination) THEN L
             ELSE [L EXCEPT !.rejectedCombinations =
                     IF Len(pushed) > RejectedLimit THEN SliceLast(pushed, RejectedKeep)
                     ELSE pushed]
    ELSE L

\* outfitItems.sort() sorts the behaviour document's own array
SortedInPlace(b) ==
    IF b.action \in {"dislike_outfit", "reject_recommendation"} /\ b.outfitItems # Undefined
    THEN [b EXCEPT !.outfitItems = Some(SortIds(b.outfitItems[1]))]
    ELSE b

\* updateUserPreferences lines 59-62
ProcessAll(L, b) ==
    ProcessRejectedCombinations(
        ProcessOccasionPreferences(
            ProcessColorPreferences(
                ProcessStylePreferences(L, b), b), b), b)

\* Whether lines 59-62 query the Clothing collection
QueriesClothing(b) ==
    \/ b.targetType = "clothing" /\ b.targetId # Undefined
    \/ b.targetType = "outfit" /\ b.outfitItems # Undefined

-----------------------------------------------------------------------------
\* A behaviour document with nothing in it (placeholder of a finished call)
NoDoc ==
    [action |-> "", targetType |-> "", targetId |-> Undefined,
     outfitItems |-> Undefined, occasion |-> Undefined]

\* new UserBehavior({ userId, ...behaviorData, context }): the document holds the
\* schema's paths only (metadata has no occasion) and its arrays default to []
NewUserBehavior(data) ==
    [action |-> data.action, targetType |-> data.targetType, targetId |-> data.targetId,
     outfitItems |-> IF data.outfitItems = Undefined THEN Some(<<>>) ELSE data.outfitItems,
     occasion |-> Undefined]

\* The schema validation save() runs: required fields and enums
Validates(doc) == doc.action \in ActionEnum /\ doc.targetType \in TargetTypeEnum

\* Calls whose preference update has not finished
InFlight == {i \in 1..Len(calls) : calls[i].upd \in {"find", "process", "save"}}

\* An update that fails and lets the failure reach the caller of recordBehavior
UpdateFailedThrows(i) ==
    /\ calls' = [calls EXCEPT ![i].upd = "failed", ![i].threw = TRUE, ![i].data = NoDoc,
                              ![i].doc = NoDoc, ![i].read = FreshLearning,
                              ![i].user = FreshLearning]
    /\ UNCHANGED <<userExists, learningData, behaviors, eventPool>>

\* updateUserPreferences lines 67-69: catch (error) { console.error(...) }
UpdateFailed(i) ==
    /\ calls' = [calls EXCEPT ![i].upd = "failed", ![i].data = NoDoc, ![i].doc = NoDoc,
                              ![i].read = FreshLearning, ![i].user = FreshLearning]
    /\ UNCHANGED <<userExists, learningData, behaviors, eventPool>>

\* recordBehavior: the document, save(), the un-awaited updateUserPreferences call
\* (which runs up to its first await) and the return; or the rethrow of save's error
RecordBehaviorCall(data) ==
    LET behavior == NewUserBehavior(data)
    IN  \/ /\ calls' = Append(calls,
                 [kind |-> "record", threw |-> TRUE, eventIdx |-> 0, upd |-> "none",
                  data |-> NoDoc, stored |-> NoDoc, doc |-> NoDoc,
                  read |-> FreshLearning, user |-> FreshLearning])
           /\ UNCHANGED behaviors
        \/ /\ Validates(behavior)
           /\ behaviors' = Append(behaviors, behavior)
           /\ calls' = Append(calls,
                 [kind |-> "record", threw |-> FALSE, eventIdx |-> Len(behaviors) + 1,
                  upd |-> "find", data |-> data, stored |-> behavior, doc |-> behavior,
                  read |-> FreshLearning, user |-> FreshLearning])

\* A caller of recordBehavior that keeps nothing of the call but the service's state
RecordBehavior ==
    /\ Len(calls) < MaxRecords
    /\ Cardinality(InFlight) < MaxInFlight
    /\ \E data \in eventPool : RecordBehaviorCall(data)
    /\ UNCHANGED <<userExists, learningData, eventPool>>
    /\ UNCHANGED <<aiVars, batchVars, recVars, moreVars>>

\* await learningService.updateUserPreferences(userId, behavior), one call after
\* the other, with a behaviour object of the caller's making
DirectUpdate ==
    /\ Len(calls) < MaxEvents
    /\ InFlight = {}
    /\ \E b \in eventPool :
         calls' = Append(calls,
            [kind |-> "direct", threw |-> FALSE, eventIdx |-> 0, upd |-> "find",
             data |-> b, stored |-> NoDoc, doc |-> b,
             read |-> FreshLearning, user |-> FreshLearning])
    /\ UNCHANGED <<userExists, learningData, behaviors, eventPool>>
    /\ UNCHANGED <<aiVars, batchVars, recVars, moreVars>>

\* updateUserPreferences lines 45-56: findById answers
UpdateFind ==
    /\ \E i \in InFlight :
         /\ calls[i].upd = "find"
         /\ \/ UpdateFailed(i)
            \/ /\ ~userExists
               /\ calls' = [calls EXCEPT ![i].upd = "nouser", ![i].data = NoDoc,
                                         ![i].doc = NoDoc]
               /\ UNCHANGED <<userExists, learningData, behaviors, eventPool>>
            \/ /\ userExists
               /\ LET L == IF learningData = Undefined THEN FreshLearning ELSE learningData[1]
                  IN  calls' = [calls EXCEPT ![i].upd = "process", ![i].read = L, ![i].user = L]
               /\ UNCHANGED <<userExists, learningData, behaviors, eventPool>>
    /\ UNCHANGED <<aiVars, batchVars, recVars, moreVars>>

\* updateUserPreferences lines 59-62: the four process* calls on the private copy
UpdateProcess ==
    /\ \E i \in InFlight :
         /\ calls[i].upd = "process"
         /\ \/ QueriesClothing(calls[i].doc) /\ UpdateFailed(i)
            \/ /\ calls' = [calls EXCEPT ![i].upd = "save",
                                         ![i].user = ProcessAll(@, calls[i].doc),
                                         ![i].doc = SortedInPlace(@)]
               /\ UNCHANGED <<userExists, learningData, behaviors, eventPool>>
    /\ UNCHANGED <<aiVars, batchVars, recVars, moreVars>>

\* A save that applies the call's event to the document as it is stored now
UpdateSaveOnCurrent ==
    /\ \E i \in InFlight :
         /\ calls[i].upd = "save"
         /\ \/ UpdateFailed(i)
            \/ /\ learningData' =
                    Some(ProcessAll(IF learningData = Undefined THEN FreshLearning
                                    ELSE learningData[1], calls[i].data))
               /\ calls' = [calls EXCEPT ![i].upd = "done", ![i].data = NoDoc,
                                         ![i].doc = NoDoc, ![i].read = FreshLearning,
                                         ![i].user = FreshLearning]
               /\ UNCHANGED <<userExists, behaviors, eventPool>>
    /\ UNCHANGED <<aiVars, batchVars, recVars, moreVars>>

\* updateUserPreferences line 65: user.save() writes the whole document
UpdateSave ==
    /\ \E i \in InFlight :
         /\ calls[i].upd = "save"
         /\ \/ UpdateFailed(i)
            \/ /\ learningData' = Some(calls[i].user)
               /\ calls' = [calls EXCEPT ![i].upd = "done", ![i].data = NoDoc,
                                         ![i].doc = NoDoc, ![i].read = FreshLearning,
                                         ![i].user = FreshLearning]
               /\ UNCHANGED <<userExists, behaviors, eventPool>>
    /\ UNCHANGED <<aiVars, batchVars, recVars, moreVars>>

\* The analysis gateway of a process without credentials, at rest
NoAnalysis ==
    /\ hasKey = [p \in Providers |-> FALSE]
    /\ preferredAI = "gemini"
    /\ metrics = [totalAnalyses |-> 0, byService |-> <<>>, last |-> Undefined]
    /\ aiPc = "idle"
    /\ selected = "none"
    /\ chainIdx = 0
    /\ retryFrom = "none"
    /\ fallbackInvoked = FALSE
    /\ netCalls = <<>>
    /\ lastFailure = "none"
    /\ analysis = Undefined
    /\ aiResult = Undefined
    /\ aiRaised = FALSE

\* Arrays of garment ids without repetition, in every order ("z" is no garment's id)
ItemLists(ids) ==
    UNION { { s \in [1..n -> ids] : \A i, j \in 1..n : i # j => s[i] # s[j] } :
              n \in 0..Cardinality(ids) }

\* What a behaviour aims at: a garment (one of them unknown), an outfit, a search
Targets ==
    { [targetType |-> "clothing", targetId |-> Some(id), outfitItems |-> Undefined,
       occasion |-> IF id = "a" THEN Some("work") ELSE Undefined] :
        id \in {"a", "b", "c", "z"} }
    \cup { [targetType |-> "outfit", targetId |-> Undefined,
            outfitItems |-> Some(<<"a", "b">>), occasion |-> Some("party")],
          [targetType |-> "search", targetId |-> Undefined, outfitItems |-> Undefined,
           occasion |-> Undefined] }

\* Behaviour objects with actions of the weight table (and one of the enum)
ScorePool ==
    { [action |-> a, targetType |-> t.targetType, targetId |-> t.targetId,
       outfitItems |-> t.outfitItems, occasion |-> t.occasion] :
        a \in DOMAIN LearningWeights \cup {"like_outfit"}, t \in Targets }

\* Behaviour objects that reject (or like) an outfit, its ids in every order
RejectPool ==
    { [action |-> a, targetType |-> "outfit", targetId |-> Undefined,
       outfitItems |-> items, occasion |-> Undefined] :
        a \in {"dislike_outfit", "reject_recommendation", "like_outfit"},
        items \in {Undefined} \cup { Some(s) : s \in ItemLists({"a", "b", "c"}) } }

\* Decimal digits of a number
RECURSIVE Decimal(_)
Decimal(n) ==
    LET Digit(d) == CASE d = 0 -> "0" [] d = 1 -> "1" [] d = 2 -> "2" [] d = 3 -> "3"
                      [] d = 4 -> "4" [] d = 5 -> "5" [] d = 6 -> "6" [] d = 7 -> "7"
                      [] d = 8 -> "8" [] d = 9 -> "9"
    IN  IF n < 10 THEN Digit(n) ELSE Decimal(n \div 10) \o Digit(n % 10)

\* Learning data after n earlier rejections of the single garments h1 .. hn
Rejected(n) ==
    [FreshLearning EXCEPT !.rejectedCombinations = [i \in 1..n |-> "h" \o Decimal(i)]]

\* Learning data after updateUserPreferences has handled the events of a
\* sequence, one after the other, starting from L
RECURSIVE Replay(_, _)
Replay(L, events) ==
    IF events = <<>> THEN L ELSE Replay(ProcessAll(L, Head(events)), Tail(events))

\* A behaviour object with a weighted action on one garment
OnGarment(a, id) ==
    [action |-> a, targetType |-> "clothing", targetId |-> Some(id),
     outfitItems |-> Undefined, occasion |-> Undefined]

\* Learning data of a user who liked, wore and accepted garment a and disliked
\* garment b three times
Scored ==
    Replay(FreshLearning,
           <<OnGarment("like", "a"), OnGarment("wear", "a"), OnGarment("accept", "a"),
             OnGarment("dislike", "b"), OnGarment("dislike", "b"), OnGarment("dislike", "b")>>)

\* updateUserPreferences applied event after event: with weighted actions to a
\* fresh user or one with scores near the limits, or with rejections to a user
\* whose rejected list is empty, one short of full, or full
InitPrefs ==
    /\ NoAnalysis
    /\ NoMore
    /\ NoBatch
    /\ NoRecommendation
    /\ userExists \in BOOLEAN
    /\ behaviors = <<>>
    /\ calls = <<>>
    /\ \/ /\ eventPool = ScorePool
          /\ learningData \in {Undefined, Some(Scored)}
       \/ /\ eventPool = RejectPool
          /\ learningData \in {Undefined, Some(Rejected(RejectedLimit - 1)),
                               Some(Rejected(RejectedLimit))}

NextPrefs ==
    \/ DirectUpdate
    \/ UpdateFind
    \/ UpdateProcess
    \/ UpdateSave

SpecPrefs == InitPrefs /\ [][NextPrefs]_vars

\* Behaviour data as POST /behavior hands it to recordBehavior: the seven table
\* actions of the enum, a search, an action outside the enum and a missing
\* action on garment a; an outfit, an unknown target type, an occasion
RecordPool ==
    { [action |-> a, targetType |-> "clothing", targetId |-> Some("a"),
       outfitItems |-> Undefined, occasion |-> Undefined] :
        a \in {"like_outfit", "dislike_outfit", "wear_clothing", "save_outfit",
               "view_clothing", "reject_recommendation", "accept_recommendation",
               "search_clothing", "like", ""} }
    \cup { [action |-> "dislike_outfit", targetType |-> "outfit", targetId |-> Undefined,
            outfitItems |-> Some(<<"b", "a">>), occasion |-> Undefined],
           [action |-> "like_outfit", targetType |-> "wardrobe", targetId |-> Some("a"),
            outfitItems |-> Undefined, occasion |-> Undefined],
           [action |-> "wear_clothing", targetType |-> "clothing", targetId |-> Some("b"),
            outfitItems |-> Undefined, occasion |-> Some("work")] }

\* recordBehavior called for a user without learning data
InitRecord ==
    /\ NoAnalysis
    /\ NoMore
    /\ NoBatch
    /\ NoRecommendation
    /\ userExists \in BOOLEAN
    /\ learningData = Undefined
    /\ behaviors = <<>>
    /\ calls = <<>>
    /\ eventPool = RecordPool

NextRecord ==
    \/ RecordBehavior
    \/ UpdateFind
    \/ UpdateProcess
    \/ UpdateSave

SpecRecord == InitRecord /\ [][NextRecord]_vars

-----------------------------------------------------------------------------
\* C6: whatever events updateUserPreferences has handled since the fresh state,
\* every style, colour and occasion score, stored or about to be stored, lies
\* within [-5, +5] (hundredths: [-500, +500]).
C6_ScoresWithinRange ==
    LET InRange(map) == \A k \in DOMAIN map : map[k] >= -500 /\ map[k] <= 500
        AllInRange(L) == /\ InRange(L.stylePreferences)
                         /\ InRange(L.colorPreferences)
                         /\ InRange(L.occasionPreferences)
    IN  /\ learningData # Undefined => AllInRange(learningData[1])
        /\ \A i \in 1..Len(calls) : AllInRange(calls[i].user)

\* Finished updates have stored a style score cut at the upper limit, another
\* cut at the lower limit, and an occasion score
C6_Witness ==
    /\ learningData # Undefined
    /\ Len(calls) > 0 /\ calls[Len(calls)].upd = "done"
    /\ GetScore(learningData[1].stylePreferences, "casual") = 500
    /\ GetScore(learningData[1].stylePreferences, "formal") = -500
    /\ DOMAIN learningData[1].occasionPreferences # {}

\* C7: the rejected list never has more than 100 entries nor a duplicate; an
\* update that adds a new combination to a list of 100 drops exactly the oldest
\* entry and keeps the other 99 in order; a combination already present, or an
\* event that rejects nothing, leaves the list as it was.
C7_RejectedListFifo ==
    LET NoDup(s) == Cardinality({ s[i] : i \in 1..Len(s) }) = Len(s)
        Small(s) == Len(s) <= 100 /\ NoDup(s)
        Rejects(b) == /\ b.action \in {"dislike_outfit", "reject_recommendation"}
                      /\ b.outfitItems # Undefined
    IN  /\ learningData # Undefined => Small(learningData[1].rejectedCombinations)
        /\ \A i \in 1..Len(calls) :
             calls[i].upd = "save" =>
               LET before == calls[i].read.rejectedCombinations
                   after == calls[i].user.rejectedCombinations
                   combination == Join(SortIds(calls[i].data.outfitItems[1]))
               IN  /\ Small(after)
                   /\ IF ~Rejects(calls[i].data) \/ Includes(before, combination)
                      THEN after = before
                      ELSE IF Len(before) = 100
                           THEN after = Append(Tail(before), combination)
                           ELSE after = Append(before, combination)

\* An update has added a new combination to a full list
C7_Witness ==
    \E i \in 1..Len(calls) :
        /\ calls[i].upd = "save"
        /\ Len(calls[i].read.rejectedCombinations) = 100
        /\ Len(calls[i].user.rejectedCombinations) = 100
        /\ calls[i].user.rejectedCombinations # calls[i].read.rejectedCombinations

\* C8: an update for a rejection of the garments a, b, c, given in any order,
\* leaves the entry "a,b,c" exactly once in the list, and the list never holds
\* the set under another order of its ids.
C8_CanonicalCombination ==
    LET Abc == ItemLists({"a", "b", "c"})
        Other == { Join(t) : t \in { u \in Abc : Len(u) = 3 } } \ {"a,b,c"}
    IN  \A i \in 1..Len(calls) :
          ( /\ calls[i].upd = "save"
            /\ calls[i].data.action \in {"dislike_outfit", "reject_recommendation"}
            /\ calls[i].data.outfitItems # Undefined
            /\ Len(calls[i].data.outfitItems[1]) = 3 )
          => /\ Count(calls[i].user.rejectedCombinations, "a,b,c") = 1
             /\ \A o \in Other : ~Includes(calls[i].user.rejectedCombinations, o)

\* The set is rejected again, in another order, when the list already holds it
C8_Witness ==
    \E i \in 1..Len(calls) :
        /\ calls[i].upd = "save"
        /\ calls[i].data.action = "dislike_outfit"
        /\ calls[i].data.outfitItems = Some(<<"c", "a", "b">>)
        /\ Includes(calls[i].read.rejectedCombinations, "a,b,c")
        /\ Count(calls[i].user.rejectedCombinations, "a,b,c") = 1

\* C9: when the update of a recorded event with a table action of the enum and a
\* single garment as target has run, the garment's style score and each of its
\* colour scores are the scores read plus the action's table weight, clamped to
\* [-5, +5]; any other action leaves the scores read.
C9_TableWeightApplied ==
    LET TableWeight(a) ==
            CASE a = "like_outfit" -> 200
              [] a = "dislike_outfit" -> -150
              [] a = "wear_clothing" -> 150
              [] a = "save_outfit" -> 180
              [] a = "view_clothing" -> 30
              [] a = "reject_recommendation" -> -100
              [] a = "accept_recommendation" -> 120
              [] OTHER -> 0
        Clamp(x) == Max(-500, Min(500, x))
    IN  \A i \in 1..Len(calls) :
          ( /\ calls[i].kind = "record"
            /\ calls[i].upd = "save"
            /\ calls[i].doc.targetType = "clothing"
            /\ calls[i].doc.targetId # Undefined
            /\ ClothingFindById(calls[i].doc.targetId[1]) # Undefined )
          => LET garment == ClothingFindById(calls[i].doc.targetId[1])[1]
                 w == TableWeight(calls[i].doc.action)
                 before == calls[i].read
                 after == calls[i].user
             IN  /\ garment.style # Undefined =>
                       GetScore(after.stylePreferences, garment.style[1])
                         = Clamp(GetScore(before.stylePreferences, garment.style[1]) + w)
                 /\ \A c \in 1..Len(garment.colors) :
                       GetScore(after.colorPreferences, garment.colors[c])
                         = Clamp(GetScore(before.colorPreferences, garment.colors[c]) + w)

\* C10: a recordBehavior call has failed towards its caller exactly when no
\* event was persisted, and then no update was started; a call whose update
\* failed has returned normally, and every persisted event is in the
\* collection as it was stored.
C10_FailureSemantics ==
    \A i \in 1..Len(calls) :
        calls[i].kind = "record" =>
          /\ calls[i].threw <=> calls[i].eventIdx = 0
          /\ calls[i].threw => calls[i].upd = "none"
          /\ calls[i].eventIdx > 0 =>
                /\ calls[i].eventIdx <= Len(behaviors)
                /\ behaviors[calls[i].eventIdx] = calls[i].stored
          /\ calls[i].upd = "failed" => ~calls[i].threw

\* One call failed on persisting, another returned its event and its update
\* failed afterwards
C10_Witness ==
    /\ \E i \in 1..Len(calls) :
         calls[i].kind = "record" /\ calls[i].threw /\ calls[i].upd = "none"
    /\ \E i \in 1..Len(calls) :
         /\ calls[i].kind = "record" /\ calls[i].upd = "failed" /\ ~calls[i].threw
         /\ behaviors[calls[i].eventIdx] = calls[i].stored

-----------------------------------------------------------------------------
\* POST /batch-upload (routes/clothes.js)

\* Number of images of a batch upload (multer admits up to 10).
MaxFiles == 5

\* const CONCURRENT_LIMIT = 3
ConcurrentLimit == 3

\* What happens to one image: all goes well, every provider call of its
\* analysis fails, readFile rejects, or the save / commit of its document rejects
FileFates == {"ok", "provider", "read", "save"}

\* A slice that takes every remaining file
WindowAll(i) == { k \in 1..Len(files) : k >= i }

\* req.files.slice(i, i + CONCURRENT_LIMIT), as 1-based indexes
Window(i) == { k \in 1..Len(files) : k >= i /\ k < i + ConcurrentLimit }

\* Files whose callback has started and not resolved
Processing == { k \in 1..Len(files) : itemPc[k] \in {"read", "analyze", "save"} }

\* What aiService.analyzeClothing resolves with: a provider's analysis under the
\* preferred service's name, or the default record of its catch (lines 93-99)
AnalyzeClothingResult(providerOk) ==
    IF providerOk
    THEN BuildResult([category |-> Some("bottom"), subCategory |-> Some("tshirt"),
                      colors |-> Some(<<"blue">>), style |-> Some("casual"),
                      season |-> Some(<<"summer">>), confidence |-> Some(85),
                      features |-> Some(<<"feature">>), tags |-> Some(<<"tag">>),
                      aiService |-> Some(preferredAI)], preferredAI)
    ELSE [category |-> GetFallbackAnalysis.category,
          subCategory |-> GetFallbackAnalysis.subCategory,
          colors |-> GetFallbackAnalysis.colors,
          style |-> GetFallbackAnalysis.style,
          season |-> GetFallbackAnalysis.season,
          confidence |-> GetFallbackAnalysis.confidence,
          detectedFeatures |-> GetFallbackAnalysis.detectedFeatures,
          suggestedTags |-> GetFallbackAnalysis.suggestedTags,
          aiService |-> "fallback"]

\* The callback's return values (lines 796-802 and 828-833)
ItemSucceeded(k, a) ==
    Some([index |-> k, success |-> TRUE, confidence |-> a.confidence,
          aiService |-> a.aiService])
ItemFailed(k) ==
    Some([index |-> k, success |-> FALSE, confidence |-> Undefined, aiService |-> ""])

\* batch.map(async ...): every callback of the window runs up to its first await
StartWindow(i) == [k \in 1..Len(files) |-> IF k \in Window(i) THEN "read" ELSE itemPc[k]]

\* Lines 844-886: the classification, the summary and the status code
BuildResponse(all) ==
    LET IsSuccess(r) == r.success
        IsError(r) == ~r.success
        results == SelectSeq(all, IsSuccess)
        errors == SelectSeq(all, IsError)
    IN  [status |-> IF Len(errors) = 0 THEN 200 ELSE IF Len(results) > 0 THEN 207 ELSE 500,
         total |-> Len(files), success |-> Len(results), failed |-> Len(errors),
         results |-> [j \in 1..Len(results) |-> results[j].index],
         errors |-> [j \in 1..Len(errors) |-> errors[j].index]]

\* Lines 736-755: the request arrives; 400 without files, else the first window
BatchUpload ==
    /\ batchPc = "idle"
    /\ IF Len(files) = 0
       THEN /\ batchResponse' = Some([status |-> 400, total |-> 0, success |-> 0,
                                      failed |-> 0, results |-> <<>>, errors |-> <<>>])
            /\ batchPc' = "done"
            /\ UNCHANGED <<winStart, itemPc>>
       ELSE /\ winStart' = 1
            /\ itemPc' = StartWindow(1)
            /\ batchPc' = "window"
            /\ UNCHANGED batchResponse
    /\ UNCHANGED <<files, dbConnected, itemResult, processResults, clothingDb>>
    /\ UNCHANGED <<aiVars, learnVars, recVars, moreVars>>

\* Lines 762-770: readFile answers; its rejection goes to the callback's catch
ItemRead ==
    /\ \E k \in Processing :
         /\ itemPc[k] = "read"
         /\ IF files[k] = "read"
            THEN /\ itemPc' = [itemPc EXCEPT ![k] = "done"]
                 /\ itemResult' = [itemResult EXCEPT ![k] = ItemFailed(k)]
            ELSE /\ itemPc' = [itemPc EXCEPT ![k] = "analyze"]
                 /\ UNCHANGED itemResult
    /\ UNCHANGED <<files, dbConnected, batchPc, winStart, processResults, clothingDb,
                   batchResponse>>
    /\ UNCHANGED <<aiVars, learnVars, recVars, moreVars>>

\* Lines 774-802: analyzeClothing answers (it records its metrics) and the
\* document is built; without a database connection the callback returns here
ItemAnalyze ==
    /\ \E k \in Processing :
         /\ itemPc[k] = "analyze"
         /\ LET a == AnalyzeClothingResult(files[k] # "provider")
            IN  /\ metrics' = RecordMetrics(metrics, a.aiService, files[k] = "provider")
                /\ IF dbConnected
                   THEN /\ itemPc' = [itemPc EXCEPT ![k] = "save"]
                        /\ itemResult' = [itemResult EXCEPT ![k] = ItemSucceeded(k, a)]
                   ELSE /\ itemPc' = [itemPc EXCEPT ![k] = "done"]
                        /\ itemResult' = [itemResult EXCEPT ![k] = ItemSucceeded(k, a)]
    /\ UNCHANGED <<files, dbConnected, batchPc, winStart, processResults, clothingDb,
                   batchResponse>>
    /\ UNCHANGED <<hasKey, preferredAI, aiPc, selected, chainIdx, retryFrom,
                   fallbackInvoked, netCalls, lastFailure, analysis, aiResult, aiRaised>>
    /\ UNCHANGED <<learnVars, recVars, moreVars>>

\* Lines 790-811: save and commit answer; a rejection aborts the transaction
\* and goes to the callback's catch
ItemSave ==
    /\ \E k \in Processing :
         /\ itemPc[k] = "save"
         /\ itemPc' = [itemPc EXCEPT ![k] = "done"]
         /\ IF files[k] = "save"
            THEN /\ itemResult' = [itemResult EXCEPT ![k] = ItemFailed(k)]
                 /\ UNCHANGED clothingDb
            ELSE /\ clothingDb' = clothingDb \cup {k}
                 /\ UNCHANGED itemResult
    /\ UNCHANGED <<files, dbConnected, batchPc, winStart, processResults, batchResponse>>
    /\ UNCHANGED <<aiVars, learnVars, recVars, moreVars>>

\* Lines 837-886: Promise.all of the window resolves; the next window starts,
\* or the response is built and sent
WindowDone ==
    /\ batchPc = "window"
    /\ \A k \in Window(winStart) : itemPc[k] = "done"
    /\ LET all == processResults \o
                  [j \in 1..Cardinality(Window(winStart)) |-> itemResult[winStart + j - 1][1]]
           next == winStart + ConcurrentLimit
       IN  /\ processResults' = all
           /\ IF next <= Len(files)
              THEN /\ winStart' = next
                   /\ itemPc' = StartWindow(next)
                   /\ UNCHANGED <<batchPc, batchResponse>>
              ELSE /\ batchResponse' = Some(BuildResponse(all))
                   /\ batchPc' = "done"
                   /\ UNCHANGED <<winStart, itemPc>>
    /\ UNCHANGED <<files, dbConnected, itemResult, clothingDb>>
    /\ UNCHANGED <<aiVars, learnVars, recVars, moreVars>>

\* A process with the Gemini credential receives a batch of up to MaxFiles images
InitBatch ==
    /\ NoLearning
    /\ NoMore
    /\ NoRecommendation
    /\ hasKey = [p \in Providers |-> p = "gemini"]
    /\ preferredAI = "gemini"
    /\ metrics = [totalAnalyses |-> 0, byService |-> <<>>, last |-> Undefined]
    /\ aiPc = "idle"
    /\ selected = "none"
    /\ chainIdx = 0
    /\ retryFrom = "none"
    /\ fallbackInvoked = FALSE
    /\ netCalls = <<>>
    /\ lastFailure = "none"
    /\ analysis = Undefined
    /\ aiResult = Undefined
    /\ aiRaised = FALSE
    /\ files \in UNION { [1..n -> FileFates] : n \in 0..MaxFiles }
    /\ dbConnected \in BOOLEAN
    /\ batchPc = "idle"
    /\ winStart = 0
    /\ itemPc = [k \in 1..Len(files) |-> "waiting"]
    /\ itemResult = [k \in 1..Len(files) |-> Undefined]
    /\ processResults = <<>>
    /\ clothingDb = {}
    /\ batchResponse = Undefined

NextBatch ==
    \/ BatchUpload
    \/ ItemRead
    \/ ItemAnalyze
    \/ ItemSave
    \/ WindowDone

SpecBatch == InitBatch /\ [][NextBatch]_vars

\* C12: when the provider calls fail for the images of a set F and everything
\* succeeds for the others, the summary of the n images reports n - |F|
\* successes and |F| failures, success + failed = total = n, and every image
\* outside F is in the results.
C12_BatchSummary ==
    ( /\ batchResponse # Undefined
      /\ Len(files) > 0
      /\ \A k \in 1..Len(files) : files[k] \in {"ok", "provider"} )
    => LET F == { k \in 1..Len(files) : files[k] = "provider" }
           resp == batchResponse[1]
       IN  /\ resp.success = Len(files) - Cardinality(F)
           /\ resp.failed = Cardinality(F)
           /\ resp.success + resp.failed = resp.total
           /\ resp.total = Len(files)
           /\ \A k \in 1..Len(files) \ F :
                \E j \in 1..Len(resp.results) : resp.results[j] = k

\* C13: at most 3 images are being processed at any moment, and an image of a
\* later window has not started while an image of an earlier window is unfinished.
C13_WindowBound ==
    /\ Cardinality(Processing) <= 3
    /\ \A j, k \in 1..Len(files) :
         ((j - 1) \div 3 < (k - 1) \div 3 /\ itemPc[k] # "waiting") => itemPc[j] = "done"

\* The second window is being processed after a first window with a failed image
C13_Witness ==
    /\ Len(files) = 5
    /\ Processing = {4, 5}
    /\ \E j \in 1..3 : ~itemResult[j][1].success
    /\ \E j \in 1..3 : itemResult[j][1].success

-----------------------------------------------------------------------------
\* The outfit composer (services/aiService.js). Categories, styles and seasons
\* are spelled in ASCII: top = shang-yi, bottom = xia-zhuang, shoes = xie-zi,
\* formal = zheng-shi, sport = yun-dong, fashion = shi-shang.

\* Garments of each category an inventory can hold beyond the composer's prefixes.
MaxTops == 6
MaxBottoms == 4
MaxShoes == 3

\* tops.slice(0, 5), bottoms.slice(0, 3), shoes.slice(0, 2), outfits.slice(0, 10)
TopsTaken == 5
BottomsTaken == 3
ShoesTaken == 2
OutfitsReturned == 10

\* A slice that keeps the whole array
SliceNothing(s, n) == s

\* Array.prototype.slice(0, n)
SlicePrefix(s, n) == SubSeq(s, 1, Min(n, Len(s)))

\* userClothes.filter(item => item.category === category)
FilterCategory(clothes, category) ==
    LET Is(item) == item.category = category IN SelectSeq(clothes, Is)

\* items.flatMap(item => item.colors)
RECURSIVE FlatMapColors(_)
FlatMapColors(items) ==
    IF items = <<>> THEN <<>> ELSE Head(items).colors \o FlatMapColors(Tail(items))

\* A harmony that is the lower the fewer colours there are
CalculateColorHarmonyReversed(items) ==
    LET uniqueColors == Distinct(FlatMapColors(items))
    IN  IF Len(uniqueColors) > 4 THEN 90
        ELSE IF Len(uniqueColors) <= 2 THEN 30
        ELSE 70

\* calculateColorHarmony (hundredths)
CalculateColorHarmony(items) ==
    LET uniqueColors == Distinct(FlatMapColors(items))
    IN  IF Len(uniqueColors) > 4 THEN 30
        ELSE IF Len(uniqueColors) <= 2 THEN 90
        ELSE 70

\* Object.keys(styleCount).reduce((a, b) => styleCount[a] > styleCount[b] ? a : b)
RECURSIVE ReduceStyle(_, _, _)
ReduceStyle(styles, keys, a) ==
    IF keys = <<>> THEN a
    ELSE ReduceStyle(styles, Tail(keys),
                     IF Count(styles, a) > Count(styles, Head(keys)) THEN a ELSE Head(keys))

\* determineOutfitStyle, for a non-empty array of garments
DetermineOutfitStyle(items) ==
    LET styles == [i \in 1..Len(items) |-> items[i].style]
        keys == Distinct(styles)
    IN  ReduceStyle(styles, Tail(keys), Head(keys))

\* items.flatMap(item => item.season)
RECURSIVE FlatMapSeasons(_)
FlatMapSeasons(items) ==
    IF items = <<>> THEN <<>> ELSE Head(items).season \o FlatMapSeasons(Tail(items))

\* Every season some garment lists, whatever its count
GetCommonSeasonsAny(items) == Distinct(FlatMapSeasons(items))

\* getCommonSeasons
GetCommonSeasons(items) ==
    LET allSeasons == FlatMapSeasons(items)
        AtLeastTwice(season) == Count(allSeasons, season) >= 2
    IN  SelectSeq(Distinct(allSeasons), AtLeastTwice)

\* suggestOccasion
SuggestOccasion(items) ==
    LET styles == [i \in 1..Len(items) |-> items[i].style]
    IN  IF Includes(styles, "formal") THEN "work"
        ELSE IF Includes(styles, "sport") THEN "sports"
        ELSE IF Includes(styles, "fashion") THEN "date"
        ELSE "daily"

\* Lines 831-837: the outfit of one triple
Outfit(top, bottom, shoe) ==
    [items |-> <<top.id, bottom.id, shoe.id>>,
     style |-> DetermineOutfitStyle(<<top, bottom, shoe>>),
     season |-> GetCommonSeasons(<<top, bottom, shoe>>),
     colorHarmony |-> CalculateColorHarmony(<<top, bottom, shoe>>),
     occasion |-> SuggestOccasion(<<top, bottom, shoe>>)]

\* Lines 824-843: the three nested loops, top-major; x counts the triples
Candidates(clothes) ==
    LET tops == SlicePrefix(FilterCategory(clothes, "top"), TopsTaken)
        bottoms == SlicePrefix(FilterCategory(clothes, "bottom"), BottomsTaken)
        shoes == SlicePrefix(FilterCategory(clothes, "shoes"), ShoesTaken)
        nb == Len(bottoms)
        ns == Len(shoes)
    IN  [x \in 1..(Len(tops) * nb * ns) |->
            Outfit(tops[((x - 1) \div (nb * ns)) + 1],
                   bottoms[(((x - 1) \div ns) % nb) + 1],
                   shoes[((x - 1) % ns) + 1])]

\* A filter that lets every outfit pass
HarmoniousAlways(outfit) == TRUE

\* Line 839: if (outfit.colorHarmony > 0.6)
Harmonious(outfit) == outfit.colorHarmony > 60

\* generateBasicOutfitRecommendations
GenerateBasicOutfitRecommendations(clothes) ==
    SlicePrefix(SelectSeq(Candidates(clothes), Harmonious), OutfitsReturned)

\* One garment of an inventory: its style and season follow from its place in
\* its category, its colours from the inventory's colour scheme
Garment(category, i, scheme) ==
    LET letter == CASE category = "top" -> "t" [] category = "bottom" -> "b"
                    [] category = "shoes" -> "s" [] OTHER -> "x"
        styles == CASE category = "top" -> <<"casual", "formal", "sport">>
                    [] category = "bottom" -> <<"casual", "sport">>
                    [] OTHER -> <<"fashion", "casual">>
        plain == CASE category = "bottom" -> <<"white">> [] OTHER -> <<"black">>
        loud == CASE category = "top" -> <<"red", "green", "blue">>
                  [] category = "bottom" -> <<"black", "yellow">>
                  [] OTHER -> <<"white", "brown">>
    IN  [id |-> letter \o Decimal(i), category |-> category,
         style |-> styles[((i - 1) % Len(styles)) + 1],
         colors |-> CASE scheme = "plain" -> <<"black">>
                      [] scheme = "loud" -> loud
                      [] OTHER -> IF i % 2 = 1 THEN plain ELSE loud,
         season |-> IF i % 2 = 1 THEN <<"spring", "summer">> ELSE <<"summer", "autumn">>]

\* Array.prototype.reverse
Reverse(s) == [i \in 1..Len(s) |-> s[Len(s) + 1 - i]]

\* An inventory: an accessory, then the tops, the bottoms and the shoes, or
\* all of it in the opposite order
Inventory(nt, nb, ns, scheme, reversed) ==
    LET grouped == <<Garment("accessory", 1, scheme)>>
                   \o [i \in 1..nt |-> Garment("top", i, scheme)]
                   \o [i \in 1..nb |-> Garment("bottom", i, scheme)]
                   \o [i \in 1..ns |-> Garment("shoes", i, scheme)]
    IN  IF reversed THEN Reverse(grouped) ELSE grouped

Inventories ==
    { Inventory(nt, nb, ns, scheme, reversed) :
        nt \in 0..MaxTops, nb \in 0..MaxBottoms, ns \in 0..MaxShoes,
        scheme \in {"plain", "loud", "mixed"}, reversed \in BOOLEAN }

\* What a call returns to its caller: who produced it, whether it is an array,
\* and the outfits of the array
BasicResult(clothes) ==
    [by |-> "basic", array |-> TRUE, outfits |-> GenerateBasicOutfitRecommendations(clothes)]

\* A direct call of generateBasicOutfitRecommendations(userClothes)
GenerateBasic ==
    /\ recPc = "idle"
    /\ recResult' = Some(BasicResult(userClothes))
    /\ recPc' = "done"
    /\ UNCHANGED <<userClothes, recTried>>
    /\ UNCHANGED <<aiVars, learnVars, batchVars, moreVars>>

\* How a provider's answer to the outfit prompt can end: the request rejects,
\* the body lacks the expected path, the text holds no {...}, JSON.parse throws,
\* or the JSON parses with recommendations being a list, missing, or a string
RecOutcomes == {"error", "badshape", "nojson", "unparseable", "list", "missing", "notarray"}

\* return result.recommendations || []
ParsedResult(provider, outcome) ==
    [by |-> provider, array |-> outcome # "notarray",
     outfits |-> IF outcome = "list"
                 THEN <<[items |-> <<"t1", "b9">>, style |-> "casual", season |-> <<"summer">>,
                         colorHarmony |-> 800, occasion |-> "daily"]>>
                 ELSE <<>>]

\* generateOutfitRecommendations lines 687-694 and generateAIOutfitRecommendations
\* up to its first request
GenerateOutfitRecommendations ==
    /\ recPc = "idle"
    /\ IF hasKey["openai"] \/ hasKey["anthropic"] \/ hasKey["gemini"]
       THEN IF hasKey["gemini"] THEN recPc' = "gemini" /\ UNCHANGED recResult
            ELSE IF hasKey["openai"] THEN recPc' = "openai" /\ UNCHANGED recResult
            ELSE recPc' = "done" /\ recResult' = Some(BasicResult(userClothes))
       ELSE recPc' = "done" /\ recResult' = Some(BasicResult(userClothes))
    /\ UNCHANGED <<userClothes, recTried>>
    /\ UNCHANGED <<aiVars, learnVars, batchVars, moreVars>>

\* Lines 750-770: the Gemini request ends
RecommendWithGemini ==
    /\ recPc = "gemini"
    /\ \E outcome \in RecOutcomes :
         /\ recTried' = Append(recTried, <<"gemini", outcome>>)
         /\ IF outcome \in {"list", "missing", "notarray"}
            THEN recPc' = "done" /\ recResult' = Some(ParsedResult("gemini", outcome))
            ELSE IF hasKey["openai"] THEN recPc' = "openai" /\ UNCHANGED recResult
            ELSE recPc' = "done" /\ recResult' = Some(BasicResult(userClothes))
    /\ UNCHANGED userClothes
    /\ UNCHANGED <<aiVars, learnVars, batchVars, moreVars>>

\* Lines 773-801: the OpenAI request ends
RecommendWithOpenAI ==
    /\ recPc = "openai"
    /\ \E outcome \in RecOutcomes :
         /\ recTried' = Append(recTried, <<"openai", outcome>>)
         /\ IF outcome \in {"list", "missing", "notarray"}
            THEN recResult' = Some(ParsedResult("openai", outcome))
            ELSE recResult' = Some(BasicResult(userClothes))
    /\ recPc' = "done"
    /\ UNCHANGED userClothes
    /\ UNCHANGED <<aiVars, learnVars, batchVars, moreVars>>

\* A process with any of the three language-model credentials and an inventory
InitRecommend ==
    /\ NoLearning
    /\ NoMore
    /\ NoBatch
    /\ hasKey \in { h \in [Providers -> BOOLEAN] : ~h["kimi"] /\ ~h["google-vision"] }
    /\ preferredAI = "gemini"
    /\ metrics = [totalAnalyses |-> 0, byService |-> <<>>, last |-> Undefined]
    /\ aiPc = "idle"
    /\ selected = "none"
    /\ chainIdx = 0
    /\ retryFrom = "none"
    /\ fallbackInvoked = FALSE
    /\ netCalls = <<>>
    /\ lastFailure = "none"
    /\ analysis = Undefined
    /\ aiResult = Undefined
    /\ aiRaised = FALSE
    /\ userClothes \in Inventories
    /\ recPc = "idle"
    /\ recTried = <<>>
    /\ recResult = Undefined

NextRecommend ==
    \/ GenerateBasic
    \/ GenerateOutfitRecommendations
    \/ RecommendWithGemini
    \/ RecommendWithOpenAI

SpecRecommend == InitRecommend /\ [][NextRecommend]_vars

\* C14: the rule-based composer returns at most 10 outfits, each with a colour
\* harmony above 0.6 (60 hundredths).
C14_AtMostTenHarmonious ==
    (recResult # Undefined /\ recResult[1].by = "basic")
    => /\ Len(recResult[1].outfits) <= 10
       /\ \A x \in 1..Len(recResult[1].outfits) : recResult[1].outfits[x].colorHarmony > 60

\* The composer cut more than 10 harmonious candidates down to 10, from an
\* inventory that also has candidates below the threshold
C14_Witness ==
    /\ recResult # Undefined /\ recResult[1].by = "basic"
    /\ Len(recResult[1].outfits) = 10
    /\ Len(SelectSeq(Candidates(userClothes), Harmonious)) > 10
    /\ \E x \in 1..Len(Candidates(userClothes)) :
         Candidates(userClothes)[x].colorHarmony <= 60

\* C15: the composer's result is a deterministic prefix: its outfits are
\* triples of the first 5 tops, first 3 bottoms and first 2 shoes of the input
\* order; they come in top-major, then bottom, then shoe order; a triple of the
\* prefixes with harmony above 0.6 is left out only when 10 earlier ones were
\* returned; and the result is a function of the inventory alone.
C15_DeterministicPrefix ==
    (recResult # Undefined /\ recResult[1].by = "basic")
    => LET out == recResult[1].outfits
           Ids(category, n) ==
               LET all == FilterCategory(userClothes, category)
               IN  [i \in 1..(IF Len(all) < n THEN Len(all) ELSE n) |-> all[i].id]
           tops == Ids("top", 5)
           bottoms == Ids("bottom", 3)
           shoes == Ids("shoes", 2)
           PosIn(id, ids) == IF \E i \in 1..Len(ids) : ids[i] = id
                             THEN CHOOSE i \in 1..Len(ids) : ids[i] = id ELSE 0
           Rank(items) == (PosIn(items[1], tops) * 100 + PosIn(items[2], bottoms)) * 100
                          + PosIn(items[3], shoes)
           ColoursOf(id) == LET g == CHOOSE g \in { userClothes[i] : i \in 1..Len(userClothes) } :
                                        g.id = id
                            IN  { g.colors[c] : c \in 1..Len(g.colors) }
           Passes(items) ==
               Cardinality(ColoursOf(items[1]) \cup ColoursOf(items[2]) \cup ColoursOf(items[3])) <= 4
       IN  /\ \A x \in 1..Len(out) :
                /\ PosIn(out[x].items[1], tops) > 0
                /\ PosIn(out[x].items[2], bottoms) > 0
                /\ PosIn(out[x].items[3], shoes) > 0
           /\ \A x, y \in 1..Len(out) : x < y => Rank(out[x].items) < Rank(out[y].items)
           /\ \A t \in 1..Len(tops), b \in 1..Len(bottoms), h \in 1..Len(shoes) :
                LET items == <<tops[t], bottoms[b], shoes[h]>>
                IN  Passes(items) =>
                      \/ \E x \in 1..Len(out) : out[x].items = items
                      \/ Len(out) = 10 /\ Rank(out[10].items) < Rank(items)
           /\ recResult[1] = BasicResult(userClothes)

\* The composer has run on an inventory in reversed order with garments beyond
\* every prefix, some candidates below the threshold and more than 10 above it
C15_Witness ==
    /\ recResult # Undefined /\ recResult[1].by = "basic"
    /\ Len(FilterCategory(userClothes, "top")) = 6
    /\ Len(FilterCategory(userClothes, "bottom")) = 4
    /\ Len(FilterCategory(userClothes, "shoes")) = 3
    /\ userClothes[1].category = "shoes"
    /\ Len(recResult[1].outfits) = 10
    /\ Len(SelectSeq(Candidates(userClothes), Harmonious)) \in 11..29

\* C16: the style of every outfit the composer returns is the most frequent
\* style of its three garments and, among styles tied for most frequent, the
\* one met first in garment order.
C16_DominantStyleFirstOnTie ==
    (recResult # Undefined /\ recResult[1].by = "basic")
    => \A x \in 1..Len(recResult[1].outfits) :
         LET items == recResult[1].outfits[x].items
             StyleOf(id) == (CHOOSE g \in { userClothes[i] : i \in 1..Len(userClothes) } :
                               g.id = id).style
             styles == [i \in 1..3 |-> StyleOf(items[i])]
             Most(i) == \A j \in 1..3 : Count(styles, styles[j]) <= Count(styles, styles[i])
             first == CHOOSE i \in 1..3 : Most(i) /\ \A j \in 1..(i - 1) : ~Most(j)
         IN  recResult[1].outfits[x].style = styles[first]

\* C17: the colour harmony the composer computed for a triple depends only on
\* the number d of distinct colours of its garments: 0.9 for d <= 2, 0.7 for d
\* of 3 or 4, 0.3 for d > 4; so it lies in [0, 1], does not grow with d, and a
\* triple with at most 2 colours scores strictly above one with 5 or more.
C17_HarmonyByDistinctColours ==
    recPc = "done"
    => \A cands \in {Candidates(userClothes)} :
         \A garments \in {{ userClothes[i] : i \in 1..Len(userClothes) }} :
           LET ColoursOf(id) == LET g == CHOOSE g \in garments : g.id = id
                                IN  { g.colors[c] : c \in 1..Len(g.colors) }
           IN  \A d \in {[x \in 1..Len(cands) |->
                           Cardinality(ColoursOf(cands[x].items[1])
                                       \cup ColoursOf(cands[x].items[2])
                                       \cup ColoursOf(cands[x].items[3]))]} :
                 /\ \A x \in 1..Len(cands) :
                      /\ cands[x].colorHarmony =
                           IF d[x] <= 2 THEN 90 ELSE IF d[x] <= 4 THEN 70 ELSE 30
                      /\ cands[x].colorHarmony >= 0 /\ cands[x].colorHarmony <= 100
                 /\ \A x, y \in 1..Len(cands) :
                      /\ d[x] <= d[y] => cands[x].colorHarmony >= cands[y].colorHarmony
                      /\ (d[x] <= 2 /\ d[y] >= 5)
                            => cands[x].colorHarmony > cands[y].colorHarmony

\* The composer has scored a triple of 2 colours, one of 3 or 4 and one of 5 or more
C17_Witness ==
    /\ recPc = "done"
    /\ \E x, y, z \in 1..Len(Candidates(userClothes)) :
         /\ Candidates(userClothes)[x].colorHarmony = 90
         /\ Candidates(userClothes)[y].colorHarmony = 70
         /\ Candidates(userClothes)[z].colorHarmony = 30

\* C18: when the augmentation has run, colours of the provider that are present,
\* non-empty and not the generic 'unknown' are the result's colours, and a
\* sub-category of the provider that is present and not generic is the
\* result's sub-category.
C18_AugmentKeepsSpecificValues ==
    ( /\ aiPc = "done"
      /\ analysis # Undefined
      /\ aiResult # Undefined
      /\ aiResult[1].aiService = BuildResult(analysis[1], preferredAI).aiService \o "+local" )
    => /\ ( /\ analysis[1].colors # Undefined
            /\ Len(analysis[1].colors[1]) > 0
            /\ analysis[1].colors[1] # <<"unknown">> )
          => aiResult[1].colors = analysis[1].colors
       /\ ( /\ analysis[1].subCategory # Undefined
            /\ analysis[1].subCategory # Some("general") )
          => aiResult[1].subCategory = analysis[1].subCategory

\* C19: a provider call sends a second request only right after its first
\* request failed with a timeout or a 5xx answer, and never a third; a first
\* request that failed otherwise, and a second request that failed, end the
\* provider call with that failure (no analysis; the chain moves on or
\* analyzeClothing's catch runs).
C19_SingleRetry ==
    [][ Len(netCalls') = Len(netCalls) + 1 =>
          LET first == aiPc # "retry"
              Propagated == aiPc' \in {"chain", "done"} /\ analysis' = Undefined
          IN  /\ aiPc' = "retry" => (first /\ lastFailure' \in {"timeout", "http5xx"})
              /\ (first /\ lastFailure' \in {"http4xx", "network", "unparseable"})
                    => Propagated
              /\ (first /\ netCalls # <<>>)
                    => netCalls'[Len(netCalls')] # netCalls[Len(netCalls)]
              /\ ~first => /\ netCalls'[Len(netCalls')] = netCalls[Len(netCalls)]
                           /\ lastFailure \in {"timeout", "http5xx"}
                           /\ lastFailure' # "none" => Propagated
      ]_vars

\* The selected provider's second request has failed too and the call ended
C19_Witness ==
    /\ selected = "openai"
    /\ netCalls = <<"openai", "openai">>
    /\ lastFailure = "http4xx"
    /\ aiPc = "done"
    /\ analysis = Undefined

\* C20: when every provider request of a generateOutfitRecommendations call
\* ended in a provider error or a response that could not be parsed, the call
\* returns the rule-based composer's result for the same inventory; and what
\* the caller gets is never a provider's malformed answer: it is an array.
C20_FallbackToComposer ==
    (recPc = "done" /\ recResult # Undefined)
    => /\ (\A i \in 1..Len(recTried) :
              recTried[i][2] \in {"error", "badshape", "nojson", "unparseable"})
          => recResult[1] = BasicResult(userClothes)
       /\ recResult[1].array

-----------------------------------------------------------------------------
\* The garment routes (routes/clothes.js): GET /:id, GET /, PUT /:id,
\* POST /:id/wear, DELETE /:id, POST /:id/keep, POST /:id/reanalyze,
\* POST /batch-wear. A stored garment is modelled by its owner and wear count.

\* Number of garment requests a behaviour makes, and of those served at once.
MaxReqs == 3
MaxReqsInFlight == 2

GarmentIds == {"g1", "g2"}
WardrobeUsers == {"u", "v"}

\* The user whose upload created the garment (userId: req.user.id at clothes.js:704)
Creator(id) == IF id = "g1" THEN "u" ELSE "v"

\* The collection after u uploaded g1 and wore it once, and v uploaded g2
InitialWardrobe ==
    [id \in GarmentIds |->
        [present |-> TRUE, userId |-> Creator(id), wearCount |-> IF id = "g1" THEN 1 ELSE 0]]

\* Clothing.findOne({ _id, userId }) / find({ userId }): the ids that match
Matching(w, ids, user) == { id \in ids : w[id].present /\ w[id].userId = user }

\* req.body of PUT /:id: a wearCount, a userId, or neither (e.g. notes only)
PutBodies ==
    { [wearCount |-> Some(0), userId |-> Undefined],
      [wearCount |-> Undefined, userId |-> Some("u")],
      [wearCount |-> Undefined, userId |-> Some("v")],
      [wearCount |-> Undefined, userId |-> Undefined] }

NoBody == [wearCount |-> Undefined, userId |-> Undefined]

\* The requests clients send: who, which route, which garment(s), which body;
\* isArray tells whether the clothingIds of a batch-wear body is an array
GarmentRequests ==
    { [kind |-> k, user |-> u, ids |-> {id}, body |-> NoBody, isArray |-> TRUE] :
        k \in {"get", "wear", "delete", "keep", "reanalyze"},
        u \in WardrobeUsers, id \in GarmentIds }
    \cup { [kind |-> "put", user |-> u, ids |-> {id}, body |-> b, isArray |-> TRUE] :
             u \in WardrobeUsers, id \in GarmentIds, b \in PutBodies }
    \cup { [kind |-> "list", user |-> u, ids |-> GarmentIds, body |-> NoBody, isArray |-> TRUE] :
             u \in WardrobeUsers }
    \cup { [kind |-> "batchwear", user |-> u, ids |-> ids, body |-> NoBody, isArray |-> TRUE] :
             u \in WardrobeUsers, ids \in {{"g1"}, {"g1", "g2"}} }
    \cup { [kind |-> "batchwear", user |-> u, ids |-> {}, body |-> NoBody, isArray |-> FALSE] :
             u \in WardrobeUsers }

\* Requests whose handler is suspended at an await
ServedNow == { i \in 1..Len(wreqs) : wreqs[i].pc \in {"analyze", "save"} }

\* A handler's record: the request, where the handler is, the status it sent
\* (0 before), the document findOne gave it, the garments the response carried,
\* and the collection right before and after the handler's write (if it wrote)
Handler(r, pc, status, doc, returned, wrote, before, after) ==
    [kind |-> r.kind, user |-> r.user, ids |-> r.ids, body |-> r.body, pc |-> pc,
     status |-> status, doc |-> doc, returned |-> returned, wrote |-> wrote,
     before |-> before, after |-> after]

\* $inc: { wearCount: 1 } on the matching documents
IncWearCount(w, ids) ==
    [id \in GarmentIds |-> IF id \in ids THEN [w[id] EXCEPT !.wearCount = @ + 1] ELSE w[id]]

\* clothing.save(): the paths the handler assigned are written with the values
\* the handler's copy holds (wear: the wear count it read plus one; PUT: the
\* body's fields; keep and reanalyze assign neither owner nor wear count)
Saved(w, h) ==
    LET id == CHOOSE id \in h.ids : TRUE
    IN  [w EXCEPT ![id] =
           [@ EXCEPT !.wearCount = IF h.kind = "wear" THEN h.doc[1].wearCount + 1
                                   ELSE IF h.kind = "put" /\ h.body.wearCount # Undefined
                                   THEN h.body.wearCount[1] ELSE @,
                     !.userId = IF h.kind = "put" /\ h.body.userId # Undefined
                                THEN h.body.userId[1] ELSE @]]

\* A request arrives and its handler runs up to its first response or its
\* second await: the query of GET, DELETE, batch-wear is its whole effect
GarmentRequest ==
    /\ Len(wreqs) < MaxReqs
    /\ Cardinality(ServedNow) < MaxReqsInFlight
    /\ \E r \in GarmentRequests, imageExists \in BOOLEAN :
         /\ r.kind # "reanalyze" => imageExists
         /\ LET found == Matching(wardrobe, r.ids, r.user)
                id == CHOOSE id \in r.ids : TRUE
            IN
             CASE r.kind = "list" ->
                    /\ wreqs' = Append(wreqs, Handler(r, "done", 200, Undefined, found,
                                                      FALSE, wardrobe, wardrobe))
                    /\ UNCHANGED wardrobe
               [] r.kind = "batchwear" /\ ~r.isArray ->
                    /\ wreqs' = Append(wreqs, Handler(r, "done", 400, Undefined, {},
                                                      FALSE, wardrobe, wardrobe))
                    /\ UNCHANGED wardrobe
               [] r.kind = "batchwear" /\ r.isArray ->
                    /\ wardrobe' = IncWearCount(wardrobe, found)
                    /\ wreqs' = Append(wreqs, Handler(r, "done", 200, Undefined, {},
                                                      found # {}, wardrobe, wardrobe'))
               [] r.kind \notin {"list", "batchwear"} /\ found = {} ->
                    /\ wreqs' = Append(wreqs, Handler(r, "done", 404, Undefined, {},
                                                      FALSE, wardrobe, wardrobe))
                    /\ UNCHANGED wardrobe
               [] found # {} /\ r.kind = "get" ->
                    /\ wreqs' = Append(wreqs, Handler(r, "done", 200, Undefined, found,
                                                      FALSE, wardrobe, wardrobe))
                    /\ UNCHANGED wardrobe
               [] found # {} /\ r.kind = "delete" ->
                    /\ wardrobe' = [wardrobe EXCEPT ![id].present = FALSE]
                    /\ wreqs' = Append(wreqs, Handler(r, "done", 200, Undefined, {},
                                                      TRUE, wardrobe, wardrobe'))
               [] found # {} /\ r.kind = "reanalyze" /\ ~imageExists ->
                    /\ wreqs' = Append(wreqs, Handler(r, "done", 404, Undefined, {},
                                                      FALSE, wardrobe, wardrobe))
                    /\ UNCHANGED wardrobe
               [] found # {} /\ r.kind \in {"put", "wear", "keep", "reanalyze"}
                             /\ imageExists ->
                    /\ wreqs' = Append(wreqs,
                          Handler(r, IF r.kind = "reanalyze" THEN "analyze" ELSE "save", 0,
                                  Some(wardrobe[id]), {}, FALSE, wardrobe, wardrobe))
                    /\ UNCHANGED wardrobe
    /\ UNCHANGED <<testVars, patternVars, responses>>
    /\ UNCHANGED <<aiVars, learnVars, batchVars, recVars>>

\* POST /:id/reanalyze lines 1318-1332: analyzeClothing answers (it records its
\* metrics) and the analysis is assigned to the handler's copy
GarmentAnalyze ==
    /\ \E i \in ServedNow :
         /\ wreqs[i].pc = "analyze"
         /\ \E providerOk \in BOOLEAN :
              metrics' = RecordMetrics(metrics, AnalyzeClothingResult(providerOk).aiService,
                                       ~providerOk)
         /\ wreqs' = [wreqs EXCEPT ![i].pc = "save"]
    /\ UNCHANGED <<wardrobe, testVars, patternVars, responses>>
    /\ UNCHANGED <<hasKey, preferredAI, aiPc, selected, chainIdx, retryFrom,
                   fallbackInvoked, netCalls, lastFailure, analysis, aiResult, aiRaised>>
    /\ UNCHANGED <<learnVars, batchVars, recVars>>

\* await clothing.save() and the response; saving a document that was deleted
\* meanwhile rejects and the catch answers 500
GarmentSave ==
    /\ \E i \in ServedNow :
         /\ wreqs[i].pc = "save"
         /\ LET id == CHOOSE id \in wreqs[i].ids : TRUE
            IN  IF wardrobe[id].present
                THEN /\ wardrobe' = Saved(wardrobe, wreqs[i])
                     /\ wreqs' = [wreqs EXCEPT ![i].pc = "done", ![i].status = 200,
                                               ![i].doc = Undefined,
                                               ![i].returned = {id}, ![i].wrote = TRUE,
                                               ![i].before = wardrobe,
                                               ![i].after = Saved(wardrobe, wreqs[i])]
                ELSE /\ wreqs' = [wreqs EXCEPT ![i].pc = "done", ![i].status = 500,
                                               ![i].doc = Undefined,
                                               ![i].before = wardrobe, ![i].after = wardrobe]
                     /\ UNCHANGED wardrobe
    /\ UNCHANGED <<testVars, patternVars, responses>>
    /\ UNCHANGED <<aiVars, learnVars, batchVars, recVars>>

\* Two users with one garment each send requests to a process with the Gemini
\* credential
InitWardrobe ==
    /\ NoLearning
    /\ NoBatch
    /\ NoRecommendation
    /\ hasKey = [p \in Providers |-> p = "gemini"]
    /\ preferredAI = "gemini"
    /\ metrics = [totalAnalyses |-> 0, byService |-> <<>>, last |-> Undefined]
    /\ aiPc = "idle"
    /\ selected = "none"
    /\ chainIdx = 0
    /\ retryFrom = "none"
    /\ fallbackInvoked = FALSE
    /\ netCalls = <<>>
    /\ lastFailure = "none"
    /\ analysis = Undefined
    /\ aiResult = Undefined
    /\ aiRaised = FALSE
    /\ wardrobe = InitialWardrobe
    /\ wreqs = <<>>
    /\ testReqs = <<>>
    /\ settledAI = Undefined
    /\ window = <<>>
    /\ patterns = Undefined
    /\ responses = <<>>

NextWardrobe ==
    \/ GarmentRequest
    \/ GarmentAnalyze
    \/ GarmentSave

SpecWardrobe == InitWardrobe /\ [][NextWardrobe]_vars

\* The handlers that answered 200
Answered(kind) ==
    { i \in 1..Len(wreqs) : wreqs[i].pc = "done" /\ wreqs[i].status = 200 /\ wreqs[i].kind = kind }

\* C21: no handler's write lowers the stored wearCount of a garment that
\* exists before and after it, and only the writes of the wear and batch-wear
\* handlers raise it.
C21_WearCountMonotone ==
    \A i \in 1..Len(wreqs) : \A g \in GarmentIds :
        (wreqs[i].wrote /\ wreqs[i].before[g].present /\ wreqs[i].after[g].present)
            => /\ wreqs[i].after[g].wearCount >= wreqs[i].before[g].wearCount
               /\ (wreqs[i].after[g].wearCount > wreqs[i].before[g].wearCount
                     => wreqs[i].kind \in {"wear", "batchwear"})

\* C28: the save of every wear handler that answered 200 left the stored
\* wearCount of its garment one above the value stored right before it.
C28_WearAddsOne ==
    \A i \in Answered("wear") : \A g \in wreqs[i].ids :
        wreqs[i].after[g].wearCount = wreqs[i].before[g].wearCount + 1

\* C30: every stored garment is owned by its creator, and every handler that
\* answered 200 returned and changed only garments created by the requesting
\* user.
C30_PerUserScoping ==
    /\ \A g \in GarmentIds : wardrobe[g].present => wardrobe[g].userId = Creator(g)
    /\ \A i \in 1..Len(wreqs) : \A g \in GarmentIds :
          (g \in wreqs[i].returned \/ wreqs[i].after[g] # wreqs[i].before[g])
              => Creator(g) = wreqs[i].user

-----------------------------------------------------------------------------
\* POST /behavior (routes/clothes.js): the route in front of recordBehavior.

\* req.body of POST /behavior: what recordBehavior is given elsewhere, and a
\* body without targetType ("" stands for a missing field)
BehaviorBodies ==
    RecordPool
    \cup { [action |-> "like_outfit", targetType |-> "", targetId |-> Some("a"),
            outfitItems |-> Undefined, occasion |-> Undefined] }

\* The handler of POST /behavior: 400 for a body without action or targetType,
\* otherwise await recordBehavior and 200, or 500 from the catch when it threw.
\* The response is kept with what the request stored and whether it started a
\* preference update.
PostBehavior ==
    /\ Len(responses) < MaxRecords
    /\ Cardinality(InFlight) < MaxInFlight
    /\ \E body \in eventPool :
         IF body.action = "" \/ body.targetType = ""
         THEN /\ responses' = Append(responses,
                    [body |-> body, status |-> 400, stored |-> 0, updating |-> FALSE])
              /\ UNCHANGED <<calls, behaviors>>
         ELSE /\ RecordBehaviorCall(body)
              /\ responses' = Append(responses,
                    [body |-> body,
                     status |-> IF calls'[Len(calls')].threw THEN 500 ELSE 200,
                     stored |-> Len(behaviors') - Len(behaviors),
                     updating |-> calls'[Len(calls')].upd # "none"])
    /\ UNCHANGED <<userExists, learningData, eventPool>>
    /\ UNCHANGED <<wardrobeVars, testVars, patternVars>>
    /\ UNCHANGED <<aiVars, batchVars, recVars>>

\* POST /behavior called for a user without learning data
InitBehaviorRoute ==
    /\ NoAnalysis
    /\ NoMore
    /\ NoBatch
    /\ NoRecommendation
    /\ userExists \in BOOLEAN
    /\ learningData = Undefined
    /\ behaviors = <<>>
    /\ calls = <<>>
    /\ eventPool = BehaviorBodies

NextBehaviorRoute ==
    \/ PostBehavior
    \/ UpdateFind
    \/ UpdateProcess
    \/ UpdateSave

SpecBehaviorRoute == InitBehaviorRoute /\ [][NextBehaviorRoute]_vars

\* C22: every submission without action or targetType, or with one of them
\* outside its enum, was answered with status 400, stored no behaviour
\* document and started no preference update.
C22_InvalidRejectedAsClientError ==
    \A i \in 1..Len(responses) :
        ~Validates(NewUserBehavior(responses[i].body))
            => /\ responses[i].status = 400
               /\ responses[i].stored = 0
               /\ ~responses[i].updating

-----------------------------------------------------------------------------
\* Pattern analysis (learningService.analyzeUserPatterns and its helpers).
\* Ratios are kept as fractions [num, den]; an average is compared with a
\* threshold by cross-multiplication.

\* Longest window of behaviour documents analysed
MaxWindow == 3

\* The documents a window is made of: decision events with and without a
\* timeSpent, an engagement-free view; created at 9h (no session id), 12h
\* (session s1) or 15h (session s2)
WindowPool ==
    { [action |-> e[1], timeSpent |-> e[2], hour |-> h,
       sessionId |-> CASE h = 9 -> Undefined [] h = 12 -> Some("s1") [] h = 15 -> Some("s2")] :
        e \in { <<"like_outfit", Undefined>>, <<"like_outfit", Some(4)>>,
                <<"like_outfit", Some(20)>>, <<"dislike_outfit", Some(20)>>,
                <<"view_clothing", Undefined>> },
        h \in {9, 12, 15} }

Windows == UNION { [1..n -> WindowPool] : n \in 0..MaxWindow }

\* Array.prototype.map over a field
Hours(bs) == [i \in 1..Len(bs) |-> bs[i].hour]
Actions(bs) == [i \in 1..Len(bs) |-> bs[i].action]
SessionIds(bs) ==
    [i \in 1..Len(bs) |-> IF bs[i].sessionId = Undefined THEN "unknown" ELSE bs[i].sessionId[1]]

\* Object.keys(hourCounts): integer-like keys come in ascending order
HourKeys(bs) ==
    SelectSeq([i \in 1..24 |-> i - 1], LAMBDA h : Includes(Hours(bs), h))

\* reduce((a, b) => hourCounts[a] > hourCounts[b] ? a : b, '12'); the count of
\* an hour without events is undefined and undefined > n is false, as 0 > n is
RECURSIVE ReduceHours(_, _, _)
ReduceHours(bs, keys, a) ==
    IF keys = <<>> THEN a
    ELSE ReduceHours(bs, Tail(keys),
            IF Count(Hours(bs), a) > Count(Hours(bs), Head(keys)) THEN a ELSE Head(keys))

AnalyzeMostActiveTime(bs) == ReduceHours(bs, HourKeys(bs), 12)

\* sort(([,a], [,b]) => b - a): stable, descending by count
RECURSIVE SortByCount(_)
SortByCount(entries) ==
    IF entries = <<>> THEN <<>>
    ELSE LET rest == SortByCount(Tail(entries))
             ahead == SelectSeq(rest, LAMBDA e : e.count > Head(entries).count)
         IN  ahead \o <<Head(entries)>> \o SubSeq(rest, Len(ahead) + 1, Len(rest))

ActionsKept == 5

AnalyzePreferredActions(bs) ==
    LET keys == Distinct(Actions(bs))
        entries == [i \in 1..Len(keys) |->
                      [action |-> keys[i], count |-> Count(Actions(bs), keys[i])]]
        sorted == SortByCount(entries)
    IN  SubSeq(sorted, 1, Min(ActionsKept, Len(sorted)))

\* Math.round(sum / n || 0): NaN (0 / 0) gives 0; n > 0 otherwise
RoundedAverage(sum, n) == IF n = 0 THEN 0 ELSE (2 * sum + n) \div (2 * n)

AnalyzeSessionPatterns(bs) ==
    LET sessions == Distinct(SessionIds(bs))
    IN  [totalSessions |-> Len(sessions),
         averageSessionLength |-> RoundedAverage(Len(bs), Len(sessions))]

EngagementActions == {"like_outfit", "save_outfit", "wear_clothing", "upload_clothing"}

\* engagementCount / behaviors.length without the test of the length
CalculateEngagementLevelUnguarded(bs) ==
    [num |-> Len(SelectSeq(bs, LAMBDA b : b.action \in EngagementActions)), den |-> Len(bs)]

\* behaviors.length > 0 ? (engagementCount / behaviors.length) : 0
CalculateEngagementLevel(bs) ==
    IF Len(bs) > 0
    THEN [num |-> Len(SelectSeq(bs, LAMBDA b : b.action \in EngagementActions)),
          den |-> Len(bs)]
    ELSE [num |-> 0, den |-> 1]

DecisionActions == {"like_outfit", "dislike_outfit", "save_outfit"}

RECURSIVE SumTimeSpent(_)
SumTimeSpent(bs) ==
    IF bs = <<>> THEN 0 ELSE bs[1].timeSpent[1] + SumTimeSpent(Tail(bs))

FastBelow == 5
SlowAbove == 15

\* analyzeDecisionSpeed: the sum runs over the decision events that carry a
\* timeSpent, the divisor is the number of all decision events
AnalyzeDecisionSpeed(bs) ==
    LET decisionBehaviors == SelectSeq(bs, LAMBDA b : b.action \in DecisionActions)
        sum == SumTimeSpent(SelectSeq(decisionBehaviors,
                                      LAMBDA b : b.timeSpent # Undefined /\ b.timeSpent[1] # 0))
        n == Len(decisionBehaviors)
    IN  IF n = 0 THEN "normal"
        ELSE IF sum < FastBelow * n THEN "fast"
        ELSE IF sum > SlowAbove * n THEN "slow"
        ELSE "normal"

\* analyzeUserPatterns: the find and the five analyses, or null from the catch
\* when the find rejects
AnalyzeUserPatterns ==
    /\ patterns = Undefined
    /\ \/ patterns' = Some([isNull |-> FALSE,
                            mostActiveTime |-> AnalyzeMostActiveTime(window),
                            preferredActions |-> AnalyzePreferredActions(window),
                            sessionPatterns |-> AnalyzeSessionPatterns(window),
                            engagementLevel |-> CalculateEngagementLevel(window),
                            decisionSpeed |-> AnalyzeDecisionSpeed(window)])
       \/ patterns' = Some([isNull |-> TRUE])
    /\ UNCHANGED <<window, wardrobeVars, testVars, responses>>
    /\ UNCHANGED <<aiVars, learnVars, batchVars, recVars>>

\* analyzeUserPatterns is about to run on the window of some user
InitPatterns ==
    /\ NoAnalysis
    /\ NoLearning
    /\ NoBatch
    /\ NoRecommendation
    /\ wardrobe = <<>>
    /\ wreqs = <<>>
    /\ testReqs = <<>>
    /\ settledAI = Undefined
    /\ responses = <<>>
    /\ window \in Windows
    /\ patterns = Undefined

NextPatterns == AnalyzeUserPatterns

SpecPatterns == InitPatterns /\ [][NextPatterns]_vars

\* The patterns analyzeUserPatterns returned, if it returned any
Analysed == patterns # Undefined /\ ~patterns[1].isNull

\* C23: the decision speed returned is the class of the average timeSpent of
\* the decision events that carry one (fast below 5, slow above 15, normal
\* otherwise), and normal when the window has no decision event.
C23_DecisionSpeedOverMeasured ==
    Analysed =>
        LET decisions == SelectSeq(window, LAMBDA b : b.action \in DecisionActions)
            measured == SelectSeq(decisions, LAMBDA b : b.timeSpent # Undefined)
            sum == SumTimeSpent(measured)
        IN  /\ decisions = <<>> => patterns[1].decisionSpeed = "normal"
            /\ measured # <<>> =>
                 patterns[1].decisionSpeed =
                    IF sum < 5 * Len(measured) THEN "fast"
                    ELSE IF sum > 15 * Len(measured) THEN "slow"
                    ELSE "normal"

\* C24: the hour returned is the one with the most events when a single hour
\* has the most, and 12 when several hours share the highest count or the
\* window is empty.
C24_MostActiveHour ==
    Analysed =>
        LET EventsAt(h) == Cardinality({i \in 1..Len(window) : window[i].hour = h})
            best == {h \in 0..23 : EventsAt(h) > 0 /\ \A k \in 0..23 : EventsAt(k) <= EventsAt(h)}
        IN  IF Cardinality(best) = 1
            THEN patterns[1].mostActiveTime \in best
            ELSE patterns[1].mostActiveTime = 12

\* C25: the analysis of an empty window returns no preferred action, zero
\* sessions of average length 0, an engagement ratio of 0 with a non-zero
\* divisor and the decision speed normal; the engagement ratio of any window
\* has a positive divisor and lies within [0, 1].
C25_EmptyWindowDefaults ==
    Analysed =>
        /\ patterns[1].engagementLevel.den > 0
        /\ patterns[1].engagementLevel.num >= 0
        /\ patterns[1].engagementLevel.num <= patterns[1].engagementLevel.den
        /\ window = <<>> =>
             /\ patterns[1].preferredActions = <<>>
             /\ patterns[1].sessionPatterns = [totalSessions |-> 0, averageSessionLength |-> 0]
             /\ patterns[1].engagementLevel.num = 0
             /\ patterns[1].decisionSpeed = "normal"

\* The analysis returned for an empty window
C25_Witness == Analysed /\ window = <<>>

-----------------------------------------------------------------------------
\* C26: for every triple the composer builds from garments whose season lists
\* hold no season twice, the outfit's seasons are exactly the seasons that at
\* least 2 of its 3 garments list, each once.
C26_CommonSeasons ==
    recPc = "done"
    => \A cands \in {Candidates(userClothes)} :
         \A garments \in {{ userClothes[i] : i \in 1..Len(userClothes) }} :
           LET SeasonsOf(id) == LET g == CHOOSE g \in garments : g.id = id
                                IN  { g.season[c] : c \in 1..Len(g.season) }
               IsSet(id) == LET g == CHOOSE g \in garments : g.id = id
                            IN  Cardinality(SeasonsOf(id)) = Len(g.season)
               Listing(o, season) == { k \in 1..3 : season \in SeasonsOf(o.items[k]) }
           IN  \A x \in 1..Len(cands) :
                 (\A k \in 1..3 : IsSet(cands[x].items[k]))
                 => /\ { cands[x].season[c] : c \in 1..Len(cands[x].season) }
                         = { season \in UNION { SeasonsOf(cands[x].items[k]) : k \in 1..3 } :
                               Cardinality(Listing(cands[x], season)) >= 2 }
                    /\ Cardinality({ cands[x].season[c] : c \in 1..Len(cands[x].season) })
                         = Len(cands[x].season)

\* The composer has built a triple with a season of one garment only (left
\* out), one of two garments and one of all three (both returned)
C26_Witness ==
    /\ recPc = "done"
    /\ \E x \in 1..Len(Candidates(userClothes)) :
         LET o == Candidates(userClothes)[x]
             g(k) == CHOOSE c \in { userClothes[i] : i \in 1..Len(userClothes) } :
                        c.id = o.items[k]
         IN  /\ Includes(g(3).season, "autumn")
             /\ ~Includes(g(1).season, "autumn") /\ ~Includes(g(2).season, "autumn")
             /\ Includes(g(1).season, "spring") /\ Includes(g(2).season, "spring")
             /\ ~Includes(g(3).season, "spring")
             /\ \A k \in 1..3 : Includes(g(k).season, "summer")
             /\ o.season = <<"spring", "summer">>

-----------------------------------------------------------------------------
\* The sum of the per-service call counts
RECURSIVE SumCounts(_, _)
SumCounts(byService, services) ==
    IF services = {} THEN 0
    ELSE LET s == CHOOSE s \in services : TRUE
         IN  byService[s].count + SumCounts(byService, services \ {s})

\* C27: the metrics change exactly in the step that ends an analyzeClothing
\* call (with a provider result or with the static fallback); that step adds
\* one to totalAnalyses and to the count of one service, which the last-outcome
\* snapshot then names, lowers no counter and leaves the other services as they
\* were; before and after every step totalAnalyses is the sum of the
\* per-service counts and no service has more errors than calls.
C27_MetricsAccounting ==
    [][ LET Sound(m) ==
              /\ m.totalAnalyses = SumCounts(m.byService, DOMAIN m.byService)
              /\ \A s \in DOMAIN m.byService : m.byService[s].errors <= m.byService[s].count
            Old(s) == IF s \in DOMAIN metrics.byService THEN metrics.byService[s]
                      ELSE [count |-> 0, errors |-> 0]
        IN  /\ Sound(metrics)
            /\ Sound(metrics')
            /\ (metrics' # metrics) <=> (aiPc # "done" /\ aiPc' = "done")
            /\ DOMAIN metrics.byService \subseteq DOMAIN metrics'.byService
            /\ \A s \in DOMAIN metrics'.byService :
                  /\ metrics'.byService[s].count >= Old(s).count
                  /\ metrics'.byService[s].errors >= Old(s).errors
            /\ metrics'.totalAnalyses >= metrics.totalAnalyses
            /\ metrics' # metrics =>
                  /\ metrics'.totalAnalyses = metrics.totalAnalyses + 1
                  /\ metrics'.last # Undefined
                  /\ aiResult' # Undefined
                  /\ metrics'.last[1].aiService = aiResult'[1].aiService
                  /\ \A s \in DOMAIN metrics'.byService :
                        metrics'.byService[s].count =
                           Old(s).count + (IF s = metrics'.last[1].aiService THEN 1 ELSE 0)
      ]_vars

\* Two calls have ended, one with a provider result and one with the static
\* fallback, which the snapshot names
C27_Witness ==
    /\ aiPc = "done"
    /\ metrics.totalAnalyses = 2
    /\ "fallback" \in DOMAIN metrics.byService
    /\ metrics.byService["fallback"].errors = 1
    /\ \E s \in DOMAIN metrics.byService : s # "fallback" /\ metrics.byService[s].errors = 0
    /\ metrics.last = Some([aiService |-> "fallback", isError |-> TRUE])

-----------------------------------------------------------------------------
\* The provider test routes (routes/ai-test.js): POST /test-analysis and
\* POST /switch-service, next to ordinary analyzeClothing calls of other routes.

\* Requests to these routes a behaviour makes
MaxTests == 3

\* req.body.service of /test-analysis ('auto' also when it is absent)
TestServices == {"auto", "openai", "anthropic", "all"}

\* /test-analysis line 27: const services = [...]
AllServices == <<"openai", "gemini", "anthropic", "google-vision">>

\* /switch-service line 144: validServices
ValidServices == {"openai", "gemini", "anthropic", "google-vision"}

\* req.body.service of /switch-service
SwitchServices == {"openai", "google-vision", "kimi"}

\* /test-analysis handlers suspended at await aiService.analyzeClothing
TestsInFlight == { i \in 1..Len(testReqs) : testReqs[i].kind = "test" /\ testReqs[i].pc = "await" }

\* analyzeClothing calls of other routes that have not returned
AnalysesInFlight ==
    { i \in 1..Len(testReqs) : testReqs[i].kind = "analyze" /\ testReqs[i].pc = "await" }

\* The service an analyzeClothing call that began under the setting selected
\* records: the selected provider (the chain's first for any other setting),
\* or 'fallback' from its catch
RecordedService(selectedAI, providerOk) ==
    IF ~providerOk THEN "fallback"
    ELSE IF selectedAI \in Providers THEN selectedAI ELSE Services[1]

\* POST /test-analysis up to its first await: 400 without a file; otherwise the
\* handler keeps preferredAI in originalService, sets the service under test
\* (the first of the list in 'all' mode, none for 'auto') and calls
\* analyzeClothing, whose switch reads the setting at once
TestAnalysis ==
    /\ Len(testReqs) < MaxTests
    /\ \E hasFile \in BOOLEAN, service \in TestServices :
         /\ ~hasFile => service = "auto"
         /\ IF ~hasFile
            THEN /\ testReqs' = Append(testReqs,
                       [kind |-> "test", service |-> service, pc |-> "done", status |-> 400,
                        originalService |-> preferredAI, selectedAI |-> preferredAI, k |-> 0])
                 /\ UNCHANGED <<preferredAI, settledAI>>
            ELSE /\ preferredAI' = IF service = "all" THEN AllServices[1]
                                   ELSE IF service # "auto" THEN service
                                   ELSE preferredAI
                 /\ testReqs' = Append(testReqs,
                       [kind |-> "test", service |-> service, pc |-> "await", status |-> 0,
                        originalService |-> preferredAI, selectedAI |-> preferredAI',
                        k |-> IF service = "all" THEN 1 ELSE 0])
                 /\ settledAI' = IF TestsInFlight = {}
                                 THEN [settledAI EXCEPT !.atRest = preferredAI]
                                 ELSE settledAI
    /\ UNCHANGED <<hasKey, metrics, aiPc, selected, chainIdx, retryFrom, fallbackInvoked,
                   netCalls, lastFailure, analysis, aiResult, aiRaised>>
    /\ UNCHANGED <<wardrobeVars, patternVars, responses>>
    /\ UNCHANGED <<learnVars, batchVars, recVars>>

\* analyzeClothing resolves in a /test-analysis handler: the handler restores
\* preferredAI from originalService; in 'all' mode the next iteration keeps the
\* restored value as originalService and sets the next service, and after the
\* last one, as in single mode, the handler answers
TestResume ==
    /\ \E i \in TestsInFlight, providerOk \in BOOLEAN :
         /\ metrics' = RecordMetrics(metrics,
                                     RecordedService(testReqs[i].selectedAI, providerOk),
                                     ~providerOk)
         /\ IF testReqs[i].k \in 1..(Len(AllServices) - 1)
            THEN /\ preferredAI' = AllServices[testReqs[i].k + 1]
                 /\ testReqs' = [testReqs EXCEPT ![i].k = @ + 1,
                                                 ![i].selectedAI = AllServices[testReqs[i].k + 1]]
            ELSE /\ preferredAI' = testReqs[i].originalService
                 /\ testReqs' = [testReqs EXCEPT ![i].pc = "done", ![i].status = 200]
    /\ UNCHANGED <<hasKey, aiPc, selected, chainIdx, retryFrom, fallbackInvoked,
                   netCalls, lastFailure, analysis, aiResult, aiRaised>>
    /\ UNCHANGED <<settledAI, wardrobeVars, patternVars, responses>>
    /\ UNCHANGED <<learnVars, batchVars, recVars>>

\* POST /switch-service: 400 for a service outside validServices, otherwise the
\* setting is replaced
SwitchService ==
    /\ Len(testReqs) < MaxTests
    /\ \E service \in SwitchServices :
         IF service \notin ValidServices
         THEN /\ testReqs' = Append(testReqs,
                    [kind |-> "switch", service |-> service, pc |-> "done", status |-> 400,
                     originalService |-> preferredAI, selectedAI |-> preferredAI, k |-> 0])
              /\ UNCHANGED <<preferredAI, settledAI>>
         ELSE /\ preferredAI' = service
              /\ settledAI' = [settledAI EXCEPT !.switched = Some(service)]
              /\ testReqs' = Append(testReqs,
                    [kind |-> "switch", service |-> service, pc |-> "done", status |-> 200,
                     originalService |-> preferredAI, selectedAI |-> service, k |-> 0])
    /\ UNCHANGED <<hasKey, metrics, aiPc, selected, chainIdx, retryFrom, fallbackInvoked,
                   netCalls, lastFailure, analysis, aiResult, aiRaised>>
    /\ UNCHANGED <<wardrobeVars, patternVars, responses>>
    /\ UNCHANGED <<learnVars, batchVars, recVars>>

\* Another route calls analyzeClothing: the switch reads preferredAI
OrdinaryAnalysis ==
    /\ Len(testReqs) < MaxTests
    /\ testReqs' = Append(testReqs,
          [kind |-> "analyze", service |-> preferredAI, pc |-> "await", status |-> 0,
           originalService |-> preferredAI, selectedAI |-> preferredAI, k |-> 0])
    /\ UNCHANGED <<aiVars, settledAI, wardrobeVars, patternVars, responses>>
    /\ UNCHANGED <<learnVars, batchVars, recVars>>

\* That call resolves and has recorded its metrics
OrdinaryAnalysisReturn ==
    /\ \E i \in AnalysesInFlight, providerOk \in BOOLEAN :
         /\ metrics' = RecordMetrics(metrics,
                                     RecordedService(testReqs[i].selectedAI, providerOk),
                                     ~providerOk)
         /\ testReqs' = [testReqs EXCEPT ![i].pc = "done", ![i].status = 200]
    /\ UNCHANGED <<hasKey, preferredAI, aiPc, selected, chainIdx, retryFrom, fallbackInvoked,
                   netCalls, lastFailure, analysis, aiResult, aiRaised>>
    /\ UNCHANGED <<settledAI, wardrobeVars, patternVars, responses>>
    /\ UNCHANGED <<learnVars, batchVars, recVars>>

\* A process configured for Gemini with every credential, before any request
InitTest ==
    /\ NoLearning
    /\ NoBatch
    /\ NoRecommendation
    /\ hasKey = [p \in Providers |-> TRUE]
    /\ preferredAI = "gemini"
    /\ metrics = [totalAnalyses |-> 0, byService |-> <<>>, last |-> Undefined]
    /\ aiPc = "idle"
    /\ selected = "none"
    /\ chainIdx = 0
    /\ retryFrom = "none"
    /\ fallbackInvoked = FALSE
    /\ netCalls = <<>>
    /\ lastFailure = "none"
    /\ analysis = Undefined
    /\ aiResult = Undefined
    /\ aiRaised = FALSE
    /\ wardrobe = <<>>
    /\ wreqs = <<>>
    /\ testReqs = <<>>
    /\ settledAI = [atRest |-> "gemini", switched |-> Undefined]
    /\ window = <<>>
    /\ patterns = Undefined
    /\ responses = <<>>

NextTest ==
    \/ TestAnalysis
    \/ TestResume
    \/ SwitchService
    \/ OrdinaryAnalysis
    \/ OrdinaryAnalysisReturn

SpecTest == InitTest /\ [][NextTest]_vars

\* C29: whenever no /test-analysis handler is in flight, preferredAI is the
\* value it had before the tests that have run since began, or the value the
\* last successful /switch-service request set.
C29_PreferredRestored ==
    TestsInFlight = {}
        => \/ preferredAI = settledAI.atRest
           \/ settledAI.switched # Undefined /\ preferredAI = settledAI.switched[1]

====
